---- MODULE Spec2Model ----
(***************************************************************************)
(* Durable MCP runtime (reboot-dev/durable-mcp-python).                    *)
(*                                                                         *)
(* One session of the session servicer (reboot/mcp/servicers/session.py),  *)
(* its durable streams (reboot/mcp/servicers/stream.py), the replay of     *)
(* reboot/mcp/event_store.py, the durable-context adapter of               *)
(* reboot/mcp/server.py and a client that posts requests, reads the        *)
(* replayed events and answers elicitations.  A replica restart loses all  *)
(* in-memory state and re-executes every unfinished workflow.              *)
(*                                                                         *)
(* The workflow executor's at_least_once and at_most_once, which the       *)
(* repository calls and does not contain, are a second machine             *)
(* (SpecSteps), written from their documented behaviour.                   *)
(*                                                                         *)
(* Strings that the code builds by formatting (event ids, aliases) are     *)
(* records that keep every part of the formatted string; uuid5 is taken to *)
(* be collision free and uuid4 to be fresh.                                *)
(***************************************************************************)
EXTENDS Integers, Sequences, FiniteSets, TLC

\* ------------------------------------------------------------------ bounds
MaxRequests == 2
MaxRestarts == 1
\* Requests whose HandleMessage has not returned when the replica goes down.
MaxInterrupted == 1

\* Exceptions of a step's fn and crashes of the workflow executor.
MaxFaults == 2

Requests == 1..MaxRequests

\* ------------------------------------------------------------------- state
VARIABLES
    method,            \* input: the method of each request
    clientName,        \* input: clientInfo.name of each initialize request
    \* durable state (state runtime)
    streams,           \* Stream.messages of every stream
    session,           \* Session state: stream_ids, client_info
    idem,              \* idempotency keys of the per_workflow writes done
    memo,              \* at_least_once results recorded, per request
    memoizeStarted,    \* Memoize of the elicit alias: started
    \* in-memory state of the replica
    request_streams,   \* SessionServicer._request_streams: refs, read closed
    write_request_ids, \* SessionServicer._write_request_ids
    hm,                \* HandleMessage(request r): position
    cur,               \* send_and_receive: write_message being handled
    run,               \* Run(request r): position
    hpos,              \* handler: index of the next call of its program
    srvNext,           \* engine: next id for a server-initiated request
    elicitText,        \* elicit(): the message it will send
    cancel,            \* cancel_outstanding_requests task: position
    cancelPending,     \* cancel_outstanding_requests: ids still to send
    resp,              \* HandleMessage(client response to uuid4 n): position
    \* client
    clientSeen,        \* events the client received, per request
    answered,          \* elicitations the client answered
    \* environment
    uuid4_next,        \* uuid4(): next fresh value
    restarts,          \* replica restarts so far
    emitted,           \* history: every message the engine sent: request,
                       \* durable-context call, event id, text, process life
    elicited,          \* history: (request, process life) of every elicit()
    delivered,         \* history: every client response sent on a read
                       \* stream: uuid4 of its request, channel, message
    \* front end: the GET request of the client
    get,               \* position of the handling of the GET request
    getHeader,         \* its Last-Event-ID header (<< >>: none)
    getSeen,           \* ids of the events delivered on the GET stream
    \* front end: the response of the transport to one HTTP request
    http,              \* position of the response
    httpRequest,       \* the request's method, the response's status and
                       \* content-type
    drop,              \* `drop` of post_send
    handed,            \* ASGI messages the transport handed to its send
    forwarded,         \* ASGI messages sent on to the client
    \* the access token of a request, from its HTTP request to its handler
    tokenPc,           \* position of each request on that way
    auth_context_var,  \* auth_context_var in the task of each HTTP request
    HandleMessageRequest, \* the request the reader spawned HandleMessage with
    RunRequest,        \* the request HandleMessage spawned Run with
    tokenSeen,         \* history: what get_access_token() returned to the
                       \* handler of each request
    tokenRestarts,     \* restarts of the replica of the session
    \* the application: its construction and the way of an HTTP request
    mcp,               \* DurableMCP(...): arguments, and how __init__ ended
    pending,           \* HTTP requests on their way through the application
    posted,            \* HTTP requests the clients have made so far
    uuid7_next,        \* uuid7(): next fresh value
    http_transports,   \* StreamableHTTPASGIApp._http_transports: its keys
    upstream,          \* history: the requests forwarded upstream
    handled,           \* history: the requests handed to a transport
    status_code,       \* status of the response to each HTTP request
    connect_tasks,     \* StreamableHTTPASGIApp._connect_tasks: its keys
    connect_started,   \* the sessions whose connect() has set `started`
    response_start,    \* http.response.start messages sent, per request
    \* one stream and the replay generator reading it
    state_messages,    \* StreamServicer state.messages of the stream
    replayPc,          \* replay(): position
    replayFrom,        \* replay(): the last_event_id it was called with
    replayLast,        \* replay(): last_event_id
    replayEvents,      \* replay(): replay.events of the response in hand
    replayIndex,       \* replay(): index of `event` in replay.events
    yielded,           \* history: the event ids replay() yielded
    \* one message on its way into a stream and out of it
    numPc,             \* position: "none", "stored", "decoded"
    numMessage,        \* the message as the engine wrote it
    numStored,         \* as_dict of the stored protobuf Struct
    numDecoded,        \* what model_validate is given on replay
    \* one tool and the event aliases of its calls
    toolPc,            \* the wrapper of the tool: "none", "running",
                       \* "raised", "returned"
    invocations,       \* invocations of the wrapper so far
    context_event_aliases, \* context._event_aliases
    session_event_aliases, \* context.session._event_aliases
    aliasCalls,        \* history: the alias of each call of the invocation
    aliasSent,         \* history: the aliases of the messages it sent
    \* workflow checkpoint of a handler with an at_least_once step and of a
    \* handler with an at_most_once step
    aloStep,           \* at_least_once step: status, recorded value
    amoStep,           \* at_most_once step: status
    aloPc,             \* execution of the at_least_once handler: position
    amoPc,             \* execution of the at_most_once handler: position
    aloRuns,           \* executions of the at_least_once handler so far
    amoRuns,           \* executions of the at_most_once handler so far
    faults,            \* exceptions of fn and crashes so far
    aloCalls,          \* history: invocations of the at_least_once fn
    aloLog,            \* history: values at_least_once returned
    amoLog             \* history: the entries into the at_most_once step

durable == <<streams, session, idem, memo, memoizeStarted>>
inmem == <<request_streams, write_request_ids, hm, cur, run, hpos, srvNext,
           elicitText, cancel, cancelPending, resp>>
client == <<clientSeen, answered>>
env == <<method, clientName, uuid4_next, restarts, emitted, elicited,
        delivered>>
executor == <<aloStep, amoStep, aloPc, amoPc, aloRuns, amoRuns, faults,
              aloCalls, aloLog, amoLog>>
getvars == <<get, getHeader, getSeen>>
sendvars == <<http, httpRequest, drop, handed, forwarded>>
tokenvars == <<tokenPc, auth_context_var, HandleMessageRequest, RunRequest,
              tokenSeen, tokenRestarts>>
transportvars == <<connect_tasks, connect_started, response_start>>
appvars == <<mcp, pending, posted, uuid7_next, http_transports, upstream,
            handled, status_code, transportvars>>
replayvars == <<state_messages, replayPc, replayFrom, replayLast, replayEvents,
               replayIndex, yielded>>
numvars == <<numPc, numMessage, numStored, numDecoded>>
aliasvars == <<toolPc, invocations, context_event_aliases,
              session_event_aliases, aliasCalls, aliasSent>>
side == <<tokenvars, appvars, replayvars, numvars, aliasvars>>
core == <<durable, inmem, client, env, executor, getvars, sendvars>>
frontend == <<getvars, sendvars, side>>
exceptToken == <<core, appvars, replayvars, numvars, aliasvars>>
exceptApp == <<core, tokenvars, replayvars, numvars, aliasvars>>
exceptReplay == <<core, tokenvars, appvars, numvars, aliasvars>>
exceptNum == <<core, tokenvars, appvars, replayvars, aliasvars>>
exceptAlias == <<core, tokenvars, appvars, replayvars, numvars>>
vars == <<durable, inmem, client, env, frontend, executor>>

\* ------------------------------------------------------------- identifiers
\* An id string.  tag says how the string was built: "rid" str(request id),
\* "uuid5" uuid5(workflow_id, alias).hex, "uuid4" uuid4().hex, "srv" the
\* request id the MCP engine gave a server-initiated request, "none" absent;
\* pre is the prefix put before it ("cancelled-" or nothing).
Eid(pre, tag, r, fn, why, iter, n) ==
    [pre |-> pre, tag |-> tag, r |-> r, fn |-> fn, why |-> why,
     iter |-> iter, n |-> n]

NoEid == Eid("", "none", 0, "", "", 0, 0)
RidOf(r) == Eid("", "rid", r, "", "", 0, 0)
Uuid4(n) == Eid("", "uuid4", 0, "", "", 0, n)
SrvId(k) == Eid("", "srv", 0, "", "", 0, k)

\* No loop iteration: within_loop() is false.
NoIter == 0

\* f"{function_name}: {why}" + f" #{iteration}" when within a loop.
EventAlias(fn, why, iter) == [fn |-> fn, why |-> why, iter |-> iter]

\* uuid5(workflow_id, event_alias).hex
Uuid5(workflow_id, alias) ==
    Eid("", "uuid5", workflow_id, alias.fn, alias.why, alias.iter, 0)

\* f"cancelled-{event_id}"
CancelledId(event_id) == [event_id EXCEPT !.pre = "cancelled-"]

\* The aggregate stream of a session.
VSCODE_GET == 0
StreamIds == Requests \cup {VSCODE_GET}

\* mcp.types.RequestId is `str | int`: the integer v, or the string of its
\* digits.
IntId(v) == [type |-> "int", v |-> v]
StrId(v) == [type |-> "str", v |-> v]
RequestIds == {IntId(r) : r \in Requests} \cup {StrId(r) : r \in Requests}

\* str(request_id): the string of the digits of an integer, a string itself.
str(request_id) == [request_id EXCEPT !.type = "str"]

\* The id of request r as the client's JSON-RPC message carries it, and as
\* metadata.related_request_id names it (always a str).
RequestId(r) == IntId(r)
RelatedRequestId(r) == StrId(r)

\* qualified_stream_id: f"{session_id}/{request_id}", which formats the
\* request id as str does; one session is modelled, so a stream is named by
\* the digits after the "/".
qualified_stream_id(request_id) == str(request_id).v

\* ---------------------------------------------------------------- messages
\* A JSON-RPC message as the engine and the servicer exchange it.  kind is
\* "request", "notification", "response" or "error"; id is the JSON-RPC id;
\* meta is params._meta.rebootEventId; related is
\* metadata.related_request_id (0: none); text is the payload that matters
\* (the elicitation message, the method).
Msg(kind, id, name, meta, related, text) ==
    [kind |-> kind, id |-> id, method |-> name, meta |-> meta,
     related |-> related, text |-> text]

\* rbt.mcp.v1.Message: a stored message.
StoredMessage(message, event_id, related) ==
    [message |-> message, event_id |-> event_id, related |-> related]

IsTerminal(m) == m.kind \in {"response", "error"}

\* get_event_id of reboot/mcp/event_store.py.
get_event_id(m) ==
    IF m.kind \in {"request", "notification"} THEN m.meta ELSE m.id

\* ------------------------------------------------------------ StreamServicer
\* The events of a stream: its messages that carry an event_id.
StreamEvents(messages) ==
    SelectSeq(messages, LAMBDA sm : sm.event_id # NoEid)

FirstIndex(events, id) ==
    CHOOSE i \in 1..Len(events) :
        /\ events[i].event_id = id
        /\ \A j \in 1..(i - 1) : events[j].event_id # id

\* A replay that starts at the event with the given id instead of after it
\* (events[i:] for events[i + 1:]).
Replay_FromMatch(messages, last_event_id) ==
    LET events == StreamEvents(messages) IN
    IF last_event_id = NoEid THEN events
    ELSE IF \E i \in 1..Len(events) : events[i].event_id = last_event_id
         THEN SubSeq(events, FirstIndex(events, last_event_id), Len(events))
         ELSE << >>

\* StreamServicer.Replay
Replay(messages, last_event_id) ==
    LET events == StreamEvents(messages) IN
    IF last_event_id = NoEid THEN events
    ELSE IF \E i \in 1..Len(events) : events[i].event_id = last_event_id
         THEN SubSeq(events, FirstIndex(events, last_event_id) + 1, Len(events))
         ELSE << >>

\* StreamServicer.Replay of reboot/event_store.py: the state holds events,
\* each with an id.
EventStoreReplay(events, last_event_id) ==
    IF last_event_id = NoEid THEN events
    ELSE IF \E i \in 1..Len(events) : events[i].event_id = last_event_id
         THEN SubSeq(events, FirstIndex(events, last_event_id) + 1, Len(events))
         ELSE << >>

\* ------------------------------------------------------------------- tools
\* The requests the client may post.  "initialize" carries clientInfo and is
\* answered by the engine itself; "add" is a tool that reports progress,
\* elicits a confirmation and sends a resource-list change; "loop" is a tool
\* that logs once in each of two iterations of a control loop; "bogus" is a
\* method the engine answers with a JSON-RPC error.
Methods == {"initialize", "add", "loop", "bogus"}

ClientNames == {"Visual Studio Code", "other"}

Op(op, why, iter) == [op |-> op, why |-> why, iter |-> iter]

\* The handler body of a method: the durable-context calls it makes, in
\* order, before it returns.
Program(name) ==
    IF name = "add"
    THEN << Op("report_progress", "progress=0.5, total=1.0, message=None", NoIter),
            Op("elicit", "Confirm?", NoIter),
            Op("send_resource_list_changed", "For testing", NoIter) >>
    ELSE IF name = "loop"
    THEN << Op("log", "level='info', message='tick'", 1),
            Op("log", "level='info', message='tick'", 2) >>
    ELSE << >>

\* The method of the notification a durable-context call emits.
NotificationMethod(op) ==
    IF op = "report_progress" THEN "notifications/progress"
    ELSE IF op = "log" THEN "notifications/message"
    ELSE "notifications/resources/list_changed"

\* related_request_id of the notification a call emits: report_progress and
\* log pass ctx.request_id, DurableSession.send_*_list_changed passes none.
NotificationRelated(op, r) ==
    IF op \in {"report_progress", "log"} THEN r ELSE 0

\* An event id that is drawn afresh by every process life (uuid4 in place of
\* uuid5 of the alias).
event_id_of_fresh(workflow_id, op) ==
    Eid("", "uuid4", workflow_id, op.op, op.why, op.iter, restarts + 1)

\* DurableSession._event_id, and the same computation inlined in
\* report_progress and log: the deterministic id of a notification.
\* workflow_id is the id of the Run workflow of the request.
event_id_of(workflow_id, op) ==
    Uuid5(workflow_id, EventAlias(op.op, op.why, op.iter))

\* The prefix elicit() puts before the message of a retried elicitation.
RETRY_PREFIX == "Sorry, we got disconnected and need to try again: "

\* An elicit that sends its message as it is whatever the Memoize says.
ElicitMessage_Unchanged(started, message) == <<"", message>>

\* The prompt elicit() sends: unchanged the first time, prefixed once the
\* Memoize of the alias says the elicitation was started before.
ElicitMessage(started, message) ==
    IF started THEN <<RETRY_PREFIX, message>> ELSE <<"", message>>

\* ----------------------------------------------------------- initial state
\* uuid4 values are drawn once per elicitation sent: at most one per request
\* and process life.
MaxUuid4 == MaxRequests * (MaxRestarts + 1)
Uuid4s == 1..MaxUuid4

\* No HTTP request is being answered.
NoHttpRequest == [method |-> "", status |-> 0, content_type |-> ""]

NoMsg == Msg("none", NoEid, "", NoEid, 0, <<>>)
NoStreams == [refs |-> 0, readClosed |-> FALSE]
NoMemo == [sar |-> FALSE, run |-> FALSE, vscode |-> "unknown", elicit |-> "none"]

\* ---------------------------------------------------------- JSON values
\* A JSON value: an int n, a float of n halves (1.0 is JsonFloat(2), 1.5
\* is JsonFloat(3)), a string, and a dict or a list of values (a dict's keys are
\* the positions of its values).
JsonInt(n) == [t |-> "int", n |-> n, items |-> << >>]
JsonFloat(halves) == [t |-> "float", n |-> halves, items |-> << >>]
Str == [t |-> "str", n |-> 0, items |-> << >>]
Dict(items) == [t |-> "dict", n |-> 0, items |-> items]
List(items) == [t |-> "list", n |-> 0, items |-> items]

\* ------------------------------------------------------- application
\* HTTP requests the clients make.
MaxHttpRequests == 2
HttpRequests == 1..MaxHttpRequests

\* No DurableMCP has been constructed.
NoDurableMCP ==
    [state |-> "none", auth |-> FALSE, auth_server_provider |-> FALSE,
     token_verifier |-> FALSE]

\* ------------------------------------------------------- access tokens
\* The AccessToken the token verifier returns for a bearer token.
AccessToken(token) == [token |-> token, client_id |-> "test_client"]

\* No AccessToken: the request was not authenticated.
NoAccessToken == [token |-> "", client_id |-> ""]

\* The bearer tokens of the clients.
BearerTokens == {"token_a", "token_b"}

\* from_model(access_token, by_alias=True, mode="json", exclude_none=True):
\* the protobuf Value of an AccessToken.
from_model(access_token) == [struct_value |-> access_token]

\* The requests of HandleMessage and of Run before they are made.
NoHandleMessageRequest ==
    [path |-> "", message_bytes |-> 0, access_token |-> << >>]
NoRunRequest == [path |-> "", message_bytes |-> 0]

Init ==
    /\ method \in {m \in [Requests -> Methods] : m[1] = "initialize"}
    /\ clientName \in {c \in [Requests -> ClientNames \cup {""}] :
                          \A r \in Requests :
                              (c[r] = "") = (method[r] # "initialize")}
    /\ streams = [s \in StreamIds |-> << >>]
    /\ session = [stream_ids |-> << >>, client_info |-> ""]
    /\ idem = {}
    /\ memo = [r \in Requests |-> NoMemo]
    /\ memoizeStarted = [r \in Requests |-> FALSE]
    /\ request_streams = [k \in RequestIds |-> NoStreams]
    /\ write_request_ids = {}
    /\ hm = [r \in Requests |-> "idle"]
    /\ cur = [r \in Requests |-> NoMsg]
    /\ run = [r \in Requests |-> "idle"]
    /\ hpos = [r \in Requests |-> 0]
    /\ srvNext = [r \in Requests |-> 0]
    /\ elicitText = [r \in Requests |-> <<>>]
    /\ cancel = [r \in Requests |-> "none"]
    /\ cancelPending = [r \in Requests |-> {}]
    /\ resp = [n \in Uuid4s |-> "none"]
    /\ clientSeen = [r \in Requests |-> << >>]
    /\ answered = {}
    /\ uuid4_next = 1
    /\ restarts = 0
    /\ emitted = {}
    /\ elicited = {}
    /\ delivered = {}
    /\ get = "none"
    /\ getHeader = << >>
    /\ getSeen = << >>
    /\ http = "none"
    /\ httpRequest = NoHttpRequest
    /\ drop = FALSE
    /\ handed = << >>
    /\ forwarded = << >>
    /\ tokenPc = [r \in Requests |-> "none"]
    /\ auth_context_var = [r \in Requests |-> NoAccessToken]
    /\ HandleMessageRequest = [r \in Requests |-> NoHandleMessageRequest]
    /\ RunRequest = [r \in Requests |-> NoRunRequest]
    /\ tokenSeen = [r \in Requests |-> << >>]
    /\ tokenRestarts = 0
    /\ mcp = NoDurableMCP
    /\ pending = {}
    /\ posted = << >>
    /\ uuid7_next = 1
    /\ http_transports = {}
    /\ upstream = {}
    /\ handled = {}
    /\ status_code = [n \in HttpRequests |-> 0]
    /\ connect_tasks = {}
    /\ connect_started = {}
    /\ response_start = [n \in HttpRequests |-> 0]
    /\ state_messages = << >>
    /\ replayPc = "none"
    /\ replayFrom = NoEid
    /\ replayLast = NoEid
    /\ replayEvents = << >>
    /\ replayIndex = 0
    /\ yielded = << >>
    /\ numPc = "none"
    /\ numMessage = Dict(<< >>)
    /\ numStored = Dict(<< >>)
    /\ numDecoded = Dict(<< >>)
    /\ toolPc = "none"
    /\ invocations = 0
    /\ context_event_aliases = {}
    /\ session_event_aliases = {}
    /\ aliasCalls = << >>
    /\ aliasSent = << >>
    /\ aloStep = [status |-> "not_started", value |-> 0]
    /\ amoStep = [status |-> "not_started"]
    /\ aloPc = "idle"
    /\ amoPc = "idle"
    /\ aloRuns = 0
    /\ amoRuns = 0
    /\ faults = 0
    /\ aloCalls = 0
    /\ aloLog = << >>
    /\ amoLog = << >>

\* ----------------------------------------------------------------- helpers
\* The alias of a per_workflow write that is a fixed string.
Alias(name) == Eid("", name, 0, "", "", 0, 0)

\* The idempotency key of `target.per_workflow(alias)` in workflow (wf, w):
\* the write is applied the first time the key is used and skipped after.
IdemKey(wf, w, target, alias) ==
    [wf |-> wf, w |-> w, target |-> target, alias |-> alias]

SESSION == -1

\* A Put that inserts the message at the head of the list.
Put_AtHead(messages, message, event_id, related_request_id) ==
    <<StoredMessage(message, event_id, related_request_id)>> \o messages

\* StreamServicer.Put
Put(messages, message, event_id, related_request_id) ==
    Append(messages, StoredMessage(message, event_id, related_request_id))

\* A _get_request_streams that keys the map by the id as it is given.
RequestStreamsKey_AsGiven(request_id) == request_id

\* _get_request_streams: request_id = str(request_id), the key of
\* _request_streams.
RequestStreamsKey(request_id) == str(request_id)

\* A _get_request_streams that creates a pair of channels on every entry.
Acquire_AlwaysCreates(rs, request_id) ==
    [rs EXCEPT ![RequestStreamsKey(request_id)] =
        [refs |-> 1, readClosed |-> FALSE]]

\* _get_request_streams: entering creates the entry or adds a reference ...
Acquire(rs, request_id) ==
    [rs EXCEPT ![RequestStreamsKey(request_id)] =
        IF @.refs = 0 THEN [refs |-> 1, readClosed |-> FALSE]
        ELSE [@ EXCEPT !.refs = @ + 1]]

\* ... and leaving drops the reference and deletes the entry with the last.
Release(rs, request_id) ==
    [rs EXCEPT ![RequestStreamsKey(request_id)] =
        IF @.refs = 1 THEN NoStreams ELSE [@ EXCEPT !.refs = @ - 1]]

\* The streams _get_request_streams(request_id) yields.
StreamsOf(request_id) == request_streams[RequestStreamsKey(request_id)]

\* The inbound JSON-RPC request of request r.
Inbound(r) == Msg("request", RidOf(r), method[r], NoEid, 0, <<>>)

\* The keys of _write_request_ids.
WriteRequestKeys == {e.event_id : e \in write_request_ids}

\* An entry of _write_request_ids that keeps the minted event id as the
\* request id.
SetWriteRequestId_NoSwapBack(ids, event_id, request_id, related) ==
    {e \in ids : e.event_id # event_id}
        \cup {[event_id |-> event_id, request_id |-> event_id,
               related |-> related]}

\* self._write_request_ids[event_id] = (write_request_id, related_request_id)
SetWriteRequestId(ids, event_id, request_id, related) ==
    {e \in ids : e.event_id # event_id}
        \cup {[event_id |-> event_id, request_id |-> request_id,
               related |-> related]}

\* ------------------------------------------------------------------ client
\* A reconnect that carries no Last-Event-ID.
LastEventId_Absent(r) == NoEid

\* The last event id the client received on the stream of request r.
LastEventId(r) ==
    IF clientSeen[r] = << >> THEN NoEid
    ELSE clientSeen[r][Len(clientSeen[r])].id

\* The client received the final response or error of request r.
ClientDone(r) ==
    \E i \in 1..Len(clientSeen[r]) :
        clientSeen[r][i].kind \in {"response", "error"}

\* --------------------------------------------------------------- front end
\* reader() of StreamableHTTPASGIApp.connect: a posted request spawns the
\* HandleMessage workflow (and a writer that replays the request's stream).
\* The client posts initialize first and its other requests once it has the
\* response to it (the MCP lifecycle).
ClientPost(r) ==
    /\ hm[r] = "idle"
    /\ r # 1 => ClientDone(1)
    /\ hm' = [hm EXCEPT ![r] = "store_stream"]
    /\ UNCHANGED <<frontend, executor, durable, request_streams, write_request_ids, cur, run, hpos,
                   srvNext, elicitText, cancel, cancelPending, resp,
                   client, env>>

\* ----------------------------------------------------------- HandleMessage
\* self.ref().per_workflow("Store stream").write(context, store_stream)
HM_StoreStream(r) ==
    /\ hm[r] = "store_stream"
    /\ LET key == IdemKey("HM", r, SESSION, Alias("Store stream")) IN
         /\ idem' = idem \cup {key}
         /\ session' = IF key \in idem THEN session
                       ELSE [session EXCEPT
                               !.stream_ids =
                                  Append(@, qualified_stream_id(RequestId(r)))]
    /\ hm' = [hm EXCEPT ![r] = "store_request"]
    /\ UNCHANGED <<frontend, executor, streams, memo, memoizeStarted, request_streams,
                   write_request_ids, cur, run, hpos, srvNext, elicitText,
                   cancel, cancelPending, resp, client, env>>

\* A put of the initial request without per_workflow: every execution of
\* HandleMessage appends it.
HM_StoreInitialRequest_NotIdempotent(r) ==
    /\ hm[r] = "store_request"
    /\ streams' = [streams EXCEPT ![r] = Put(@, Inbound(r), NoEid, 0)]
    /\ hm' = [hm EXCEPT ![r] = IF method[r] = "initialize"
                               THEN "store_client_info" ELSE "enter"]
    /\ UNCHANGED <<frontend, executor, session, idem, memo, memoizeStarted,
                   request_streams, write_request_ids, cur, run, hpos,
                   srvNext, elicitText, cancel, cancelPending, resp, client,
                   env>>

\* stream.per_workflow("Store initial request").put(context, message=...)
HM_StoreInitialRequest(r) ==
    /\ hm[r] = "store_request"
    /\ LET key == IdemKey("HM", r, r, Alias("Store initial request")) IN
         /\ idem' = idem \cup {key}
         /\ streams' = IF key \in idem THEN streams
                       ELSE [streams EXCEPT ![r] = Put(@, Inbound(r), NoEid, 0)]
    /\ hm' = [hm EXCEPT ![r] = IF method[r] = "initialize"
                               THEN "store_client_info" ELSE "enter"]
    /\ UNCHANGED <<frontend, executor, session, memo, memoizeStarted, request_streams,
                   write_request_ids, cur, run, hpos, srvNext, elicitText,
                   cancel, cancelPending, resp, client, env>>

\* A store_client_info without its assertion: it writes the clientInfo of
\* every initialize request.
HM_StoreClientInfo_Overwrites(r) ==
    /\ hm[r] = "store_client_info"
    /\ LET key == IdemKey("HM", r, SESSION,
                          Alias("Store client info on initialize")) IN
         /\ idem' = idem \cup {key}
         /\ session' = IF key \in idem THEN session
                       ELSE [session EXCEPT !.client_info = clientName[r]]
    /\ hm' = [hm EXCEPT ![r] = "enter"]
    /\ UNCHANGED <<frontend, executor, streams, memo, memoizeStarted, request_streams,
                   write_request_ids, cur, run, hpos, srvNext, elicitText,
                   cancel, cancelPending, resp, client, env>>

\* self.ref().per_workflow("Store client info on initialize").write(...):
\* store_client_info asserts that client_info is not set yet.
HM_StoreClientInfo(r) ==
    /\ hm[r] = "store_client_info"
    /\ LET key == IdemKey("HM", r, SESSION,
                          Alias("Store client info on initialize")) IN
         IF key \in idem
         THEN /\ hm' = [hm EXCEPT ![r] = "enter"]
              /\ UNCHANGED <<idem, session>>
         ELSE IF session.client_info # ""
         THEN /\ hm' = [hm EXCEPT ![r] = "assert_failed"]
              /\ UNCHANGED <<idem, session>>
         ELSE /\ hm' = [hm EXCEPT ![r] = "enter"]
              /\ idem' = idem \cup {key}
              /\ session' = [session EXCEPT !.client_info = clientName[r]]
    /\ UNCHANGED <<frontend, executor, streams, memo, memoizeStarted, request_streams,
                   write_request_ids, cur, run, hpos, srvNext, elicitText,
                   cancel, cancelPending, resp, client, env>>

\* with self._get_request_streams(request_id): spawn Run, then
\* at_least_once("Send and receive", ...) runs send_and_receive unless its
\* completion is recorded.
HM_Enter(r) ==
    /\ hm[r] = "enter"
    /\ request_streams' = Acquire(request_streams, RequestId(r))
    /\ run' = [run EXCEPT ![r] = IF @ = "idle" THEN "enter" ELSE @]
    /\ hm' = [hm EXCEPT ![r] = IF memo[r].sar THEN "await_run" ELSE "sar_send"]
    /\ UNCHANGED <<frontend, executor, durable, write_request_ids, cur, hpos, srvNext,
                   elicitText, cancel, cancelPending, resp, client, env>>

\* Effect validation: at_least_once("Send and receive", ...) executes
\* send_and_receive a second time, after its first execution returned and
\* before its completion is recorded.
SAR_Validate(r) ==
    /\ hm[r] = "sar_memo"
    /\ hm' = [hm EXCEPT ![r] = "sar_send"]
    /\ UNCHANGED <<frontend, executor, durable, request_streams,
                   write_request_ids, cur, run, hpos, srvNext, elicitText,
                   cancel, cancelPending, resp, client, env>>

\* A send_and_receive whose send succeeds on a closed channel: the engine
\* is handed the inbound request again.
SAR_Send_Redelivers(r) ==
    /\ hm[r] = "sar_send"
    /\ hm' = [hm EXCEPT ![r] = "sar_recv"]
    /\ run' = [run EXCEPT ![r] = "handler"]
    /\ hpos' = [hpos EXCEPT ![r] = 1]
    /\ UNCHANGED <<frontend, executor, durable, request_streams,
                   write_request_ids, cur, srvNext, elicitText, cancel,
                   cancelPending, resp, client, env>>

\* send_and_receive: read_stream_send.send(message), received by the engine
\* that Run drives (server.run reading read_stream_receive); on a closed
\* channel the send raises anyio.ClosedResourceError, which is caught, and
\* send_and_receive returns.
SAR_Send(r) ==
    /\ hm[r] = "sar_send"
    /\ IF StreamsOf(RequestId(r)).readClosed
       THEN /\ hm' = [hm EXCEPT ![r] = "sar_validated"]
            /\ UNCHANGED <<run, hpos>>
       ELSE /\ run[r] = "recv_inbound"
            /\ hm' = [hm EXCEPT ![r] = "sar_recv"]
            /\ run' = [run EXCEPT ![r] = "handler"]
            /\ hpos' = [hpos EXCEPT ![r] = 1]
    /\ UNCHANGED <<frontend, executor, durable, request_streams, write_request_ids, cur,
                   srvNext, elicitText, cancel, cancelPending, resp, client,
                   env>>

\* The head of the loop body of send_and_receive: the event id of the
\* received write_message, and for a server-initiated request the id swap
\* and the entry of _write_request_ids.
Received(r, m) ==
    /\ cur' = [cur EXCEPT ![r] = IF m.kind = "request"
                                 THEN [m EXCEPT !.id = get_event_id(m)] ELSE m]
    /\ write_request_ids' =
         IF m.kind = "request"
         THEN SetWriteRequestId(write_request_ids, get_event_id(m), m.id,
                                m.related)
         ELSE write_request_ids
    /\ hm' = [hm EXCEPT ![r] = "sar_put"]

\* The final message of the engine for request r: a JSON-RPC response, or
\* an error for a method it does not know.
FinalMessage(r) ==
    Msg(IF method[r] = "bogus" THEN "error" ELSE "response", RidOf(r), "",
        NoEid, 0, <<>>)

\* The notification report_progress, log or send_*_list_changed sends.
Notification(r, op) ==
    Msg("notification", NoEid, NotificationMethod(op.op), event_id_of(r, op),
        NotificationRelated(op.op, r), <<>>)

\* The ElicitRequest of send_request_and_wait_for_result: its event id is a
\* fresh uuid4, its JSON-RPC id the next request id of the engine's session.
ElicitRequest(r, text) ==
    Msg("request", SrvId(srvNext[r]), "elicitation/create", Uuid4(uuid4_next),
        r, text)

\* The handler's next durable-context call, or its return.
Returned(r) == hpos[r] > Len(Program(method[r]))
NextOp(r) ==
    IF Returned(r) THEN Op("return", "", NoIter)
    ELSE Program(method[r])[hpos[r]]

\* An engine whose write_stream.send waits until the client has received
\* the events stored so far.
EngineSending_WhileConnected(r) ==
    /\ Replay(streams[qualified_stream_id(RelatedRequestId(r))],
              LastEventId(r)) = << >>
    /\ \/ run[r] = "handler" /\ (Returned(r) \/ NextOp(r).op # "elicit")
       \/ run[r] = "elicit_send" /\ memo[r].elicit = "none"

\* The engine is in write_stream.send: the handler returned, it sends a
\* notification, or elicit sends its request (no result is recorded).
EngineSending(r) ==
    \/ run[r] = "handler" /\ (Returned(r) \/ NextOp(r).op # "elicit")
    \/ run[r] = "elicit_send" /\ memo[r].elicit = "none"

EngineMessage(r) ==
    IF run[r] = "elicit_send" THEN ElicitRequest(r, elicitText[r])
    ELSE IF Returned(r) THEN FinalMessage(r)
    ELSE Notification(r, NextOp(r))

\* async for write_message in write_stream_receive: a message of the engine.
\* The two ends of the memory stream meet: the engine's send returns and the
\* handler goes on (to wait for the result of a request, or to its next
\* call), or server.run keeps reading after the final response.
SAR_ReceiveFromEngine(r) ==
    /\ hm[r] = "sar_recv"
    /\ EngineSending(r)
    /\ LET m == EngineMessage(r) IN
         /\ Received(r, m)
         /\ run' = [run EXCEPT ![r] = IF m.kind = "request" THEN "await_result"
                                      ELSE IF IsTerminal(m) THEN "drain"
                                      ELSE "handler"]
         /\ hpos' = [hpos EXCEPT ![r] = IF m.kind = "notification"
                                        THEN @ + 1 ELSE @]
         /\ srvNext' = [srvNext EXCEPT ![r] = IF m.kind = "request"
                                              THEN @ + 1 ELSE @]
         /\ uuid4_next' = IF m.kind = "request" THEN uuid4_next + 1
                          ELSE uuid4_next
         /\ emitted' = emitted \cup {[r |-> r, op |-> NextOp(r),
                                      id |-> get_event_id(m),
                                      text |-> m.text,
                                      request_id |-> m.id,
                                      life |-> restarts]}
    /\ UNCHANGED <<frontend, executor, durable, request_streams, elicitText, cancel,
                   cancelPending, resp, client, method, clientName, restarts,
                   elicited, delivered>>

\* The CancelledNotification cancel_outstanding_requests sends for event_id.
CancelledNotification(r, event_id) ==
    Msg("notification", NoEid, "notifications/cancelled",
        CancelledId(event_id), r, <<"requestId", event_id>>)

\* async for write_message in write_stream_receive: a notification that
\* cancel_outstanding_requests is sending.
SAR_ReceiveCancel(r) ==
    /\ hm[r] = "sar_recv"
    /\ cancel[r] = "send"
    /\ \E e \in cancelPending[r] :
         /\ Received(r, CancelledNotification(r, e))
         /\ cancelPending' = [cancelPending EXCEPT ![r] = @ \ {e}]
         /\ cancel' = [cancel EXCEPT ![r] = IF cancelPending[r] = {e}
                                            THEN "done" ELSE @]
    /\ UNCHANGED <<frontend, executor, durable, request_streams, run, hpos, srvNext,
                   elicitText, resp, client, env>>

\* The put of the outgoing message without per_workflow(event_id): every
\* execution appends.
SAR_Put_NotIdempotent(r) ==
    /\ hm[r] = "sar_put"
    /\ streams' = [streams EXCEPT
                     ![r] = Put(@, cur[r], get_event_id(cur[r]), cur[r].related)]
    /\ hm' = [hm EXCEPT ![r] = "sar_vscheck"]
    /\ UNCHANGED <<frontend, executor, session, idem, memo, memoizeStarted, request_streams,
                   write_request_ids, cur, run, hpos, srvNext, elicitText,
                   cancel, cancelPending, resp, client, env>>

\* stream.per_workflow(event_id).put(context, message=..., event_id=...,
\* related_request_id=...)
SAR_Put(r) ==
    /\ hm[r] = "sar_put"
    /\ LET event_id == get_event_id(cur[r])
           key == IdemKey("HM", r, r, event_id) IN
         /\ idem' = idem \cup {key}
         /\ streams' = IF key \in idem THEN streams
                       ELSE [streams EXCEPT
                               ![r] = Put(@, cur[r], event_id, cur[r].related)]
    /\ hm' = [hm EXCEPT ![r] = "sar_vscheck"]
    /\ UNCHANGED <<frontend, executor, session, memo, memoizeStarted, request_streams,
                   write_request_ids, cur, run, hpos, srvNext, elicitText,
                   cancel, cancelPending, resp, client, env>>

\* check_is_vscode: what it returns once client_info is populated.
is_vscode(client_info) ==
    IF client_info = "Visual Studio Code" THEN "yes" ELSE "no"

\* The end of the loop body: on a response or error close the read stream
\* (read_stream_send.aclose()) and leave the loop, else receive the next
\* message.
EndOfLoopBody(r) ==
    /\ IF IsTerminal(cur[r])
       THEN /\ request_streams' =
                 [request_streams EXCEPT
                    ![RequestStreamsKey(RequestId(r))].readClosed = TRUE]
            /\ hm' = [hm EXCEPT ![r] = "sar_memo"]
       ELSE /\ hm' = [hm EXCEPT ![r] = "sar_recv"]
            /\ UNCHANGED request_streams
    /\ cur' = [cur EXCEPT ![r] = NoMsg]

\* at_least_once("Check if client is Visual Studio Code", ...): the recorded
\* answer, or check_is_vscode, which polls with a backoff until client_info
\* is populated.  When the client is not Visual Studio Code the loop body
\* ends here.
SAR_CheckIsVscode(r) ==
    /\ hm[r] = "sar_vscheck"
    /\ memo[r].vscode = "unknown" => session.client_info # ""
    /\ LET answer == IF memo[r].vscode # "unknown" THEN memo[r].vscode
                     ELSE is_vscode(session.client_info) IN
         /\ memo' = [memo EXCEPT ![r].vscode = answer]
         /\ IF answer = "yes"
            THEN /\ hm' = [hm EXCEPT ![r] = "sar_vsput"]
                 /\ UNCHANGED <<request_streams, cur>>
            ELSE EndOfLoopBody(r)
    /\ UNCHANGED <<frontend, executor, streams, session, idem, memoizeStarted, write_request_ids,
                   run, hpos, srvNext, elicitText, cancel, cancelPending, resp,
                   client, env>>

\* The put on the aggregate stream without per_workflow(event_id).
SAR_VscodePut_NotIdempotent(r) ==
    /\ hm[r] = "sar_vsput"
    /\ streams' = [streams EXCEPT
                     ![VSCODE_GET] = Put(@, cur[r], get_event_id(cur[r]), 0)]
    /\ EndOfLoopBody(r)
    /\ UNCHANGED <<frontend, executor, session, idem, memo, memoizeStarted, write_request_ids, run,
                   hpos, srvNext, elicitText, cancel, cancelPending, resp,
                   client, env>>

\* vscode_stream.per_workflow(event_id).put(context, message=..., event_id=...)
\* and the end of the loop body.
SAR_VscodePut(r) ==
    /\ hm[r] = "sar_vsput"
    /\ LET event_id == get_event_id(cur[r])
           key == IdemKey("HM", r, VSCODE_GET, event_id) IN
         /\ idem' = idem \cup {key}
         /\ streams' = IF key \in idem THEN streams
                       ELSE [streams EXCEPT
                               ![VSCODE_GET] = Put(@, cur[r], event_id, 0)]
    /\ EndOfLoopBody(r)
    /\ UNCHANGED <<frontend, executor, session, memo, memoizeStarted, write_request_ids, run, hpos,
                   srvNext, elicitText, cancel, cancelPending, resp, client,
                   env>>

\* at_least_once("Send and receive", ...) records that send_and_receive
\* returned.
SAR_Memo(r) ==
    /\ hm[r] \in {"sar_memo", "sar_validated"}
    /\ memo' = [memo EXCEPT ![r].sar = TRUE]
    /\ hm' = [hm EXCEPT ![r] = "await_run"]
    /\ UNCHANGED <<frontend, executor, streams, session, idem, memoizeStarted, request_streams,
                   write_request_ids, cur, run, hpos, srvNext, elicitText,
                   cancel, cancelPending, resp, client, env>>

\* await run_task; return HandleMessageResponse()
HM_AwaitRun(r) ==
    /\ hm[r] = "await_run"
    /\ run[r] = "done"
    /\ request_streams' = Release(request_streams, RequestId(r))
    /\ hm' = [hm EXCEPT ![r] = "done"]
    /\ UNCHANGED <<frontend, executor, durable, write_request_ids, cur, run, hpos, srvNext,
                   elicitText, cancel, cancelPending, resp, client, env>>

\* --------------------------------------------------------------------- Run
\* with self._get_request_streams(request_id): create the task of
\* cancel_outstanding_requests, then at_least_once("Server run", ...): when
\* its completion is recorded server_run is not run, the task is cancelled
\* and Run returns.
Run_Enter(r) ==
    /\ run[r] = "enter"
    /\ IF memo[r].run
       THEN /\ run' = [run EXCEPT ![r] = "done"]
            /\ UNCHANGED <<request_streams, cancel, srvNext>>
       ELSE /\ run' = [run EXCEPT ![r] = "recv_inbound"]
            /\ request_streams' = Acquire(request_streams, RequestId(r))
            /\ cancel' = [cancel EXCEPT ![r] = "read"]
            /\ srvNext' = [srvNext EXCEPT ![r] = 0]
    /\ UNCHANGED <<frontend, executor, durable, write_request_ids, hm, cur, hpos, elicitText,
                   cancelPending, resp, client, env>>

\* The loop of cancel_outstanding_requests over the stored messages: a
\* request with an event_id is added, str(id) of a response is discarded.
RECURSIVE OutstandingEventIds(_, _)
OutstandingEventIds(messages, k) ==
    IF k = 0 THEN {}
    ELSE LET before == OutstandingEventIds(messages, k - 1)
             sm == messages[k]
             added == IF sm.message.kind = "request" /\ sm.event_id # NoEid
                      THEN before \cup {sm.event_id} ELSE before
         IN IF sm.message.kind = "response"
            THEN added \ {sm.message.id} ELSE added

\* cancel_outstanding_requests: stream.always().messages(context) and the
\* loop over them; the assertion `event_id not in self._write_request_ids`
\* ends the task when it fails.
Cancel_Read(r) ==
    /\ cancel[r] = "read"
    /\ LET messages == streams[qualified_stream_id(RequestId(r))]
           failed == \E i \in 1..Len(messages) :
                        /\ messages[i].message.kind = "request"
                        /\ messages[i].event_id # NoEid
                        /\ messages[i].event_id \in WriteRequestKeys
           outstanding == OutstandingEventIds(messages, Len(messages)) IN
         /\ cancelPending' = [cancelPending EXCEPT
                                ![r] = IF failed THEN {} ELSE outstanding]
         /\ cancel' = [cancel EXCEPT
                         ![r] = IF failed \/ outstanding = {} THEN "done"
                                ELSE "send"]
    /\ UNCHANGED <<frontend, executor, durable, request_streams, write_request_ids, hm, cur, run,
                   hpos, srvNext, elicitText, resp, client, env>>

\* elicit(): memoize Reset (once per workflow), Status and Start decide the
\* message that will be sent.
Handler_Elicit(r) ==
    /\ run[r] = "handler"
    /\ ~Returned(r)
    /\ NextOp(r).op = "elicit"
    /\ elicitText' = [elicitText EXCEPT
                        ![r] = ElicitMessage(memoizeStarted[r], NextOp(r).why)]
    /\ memoizeStarted' = [memoizeStarted EXCEPT ![r] = TRUE]
    /\ run' = [run EXCEPT ![r] = "elicit_send"]
    /\ elicited' = elicited \cup {[r |-> r, life |-> restarts]}
    /\ UNCHANGED <<frontend, executor, streams, session, idem, memo, request_streams,
                   write_request_ids, hm, cur, hpos, srvNext, cancel,
                   cancelPending, resp, client, method, clientName,
                   uuid4_next, restarts, emitted, delivered>>

\* elicit(): at_least_once("Send request, wait for result", ...) returns
\* the recorded result without sending.
Elicit_Recorded(r) ==
    /\ run[r] = "elicit_send"
    /\ memo[r].elicit # "none"
    /\ run' = [run EXCEPT ![r] = "handler"]
    /\ hpos' = [hpos EXCEPT ![r] = @ + 1]
    /\ UNCHANGED <<frontend, executor, durable, request_streams, write_request_ids, hm, cur,
                   srvNext, elicitText, cancel, cancelPending, resp, client,
                   env>>

\* server.run returns once the read stream is closed; at_least_once records
\* "Server run"; finally the task of cancel_outstanding_requests is
\* cancelled and Run leaves _get_request_streams.
Run_Finish(r) ==
    /\ run[r] = "drain"
    /\ StreamsOf(RequestId(r)).readClosed
    /\ memo' = [memo EXCEPT ![r].run = TRUE]
    /\ cancel' = [cancel EXCEPT ![r] = "done"]
    /\ cancelPending' = [cancelPending EXCEPT ![r] = {}]
    /\ request_streams' = Release(request_streams, RequestId(r))
    /\ run' = [run EXCEPT ![r] = "done"]
    /\ UNCHANGED <<frontend, executor, streams, session, idem, memoizeStarted, write_request_ids,
                   hm, cur, hpos, srvNext, elicitText, resp, client, env>>

\* ------------------------------------- HandleMessage of a client response
\* The entry of _write_request_ids for the elicitation with event id
\* uuid4 n.
WriteRequestEntry(n) ==
    CHOOSE e \in write_request_ids : e.event_id = Uuid4(n)

\* The client's response after `message.message.root.id = request_id`.
ClientResponse(request_id) ==
    Msg("response", request_id, "", NoEid, 0, <<"accept">>)

\* A HandleMessage that goes on to store and send a response whatever
\* _write_request_ids holds.
Resp_Check_NoLookup(n) ==
    /\ resp[n] = "check"
    /\ resp' = [resp EXCEPT ![n] = "put"]
    /\ UNCHANGED <<frontend, executor, durable, request_streams, write_request_ids, hm, cur, run,
                   hpos, srvNext, elicitText, cancel, cancelPending,
                   client, env>>

\* if event_id in self._write_request_ids: ... else: the response is
\* ignored.
Resp_Check(n) ==
    /\ resp[n] = "check"
    /\ resp' = [resp EXCEPT ![n] = IF Uuid4(n) \in WriteRequestKeys
                                   THEN "put" ELSE "done"]
    /\ UNCHANGED <<frontend, executor, durable, request_streams, write_request_ids, hm, cur, run,
                   hpos, srvNext, elicitText, cancel, cancelPending,
                   client, env>>

\* stream.per_workflow("Store response for request with event ID ...").put,
\* then with self._get_request_streams(related_request_id).
Resp_Put(n) ==
    /\ resp[n] = "put"
    /\ Uuid4(n) \in WriteRequestKeys
    /\ LET e == WriteRequestEntry(n)
           sid == qualified_stream_id(RelatedRequestId(e.related))
           key == IdemKey("Resp", n, sid, Alias("Store response")) IN
         /\ idem' = idem \cup {key}
         /\ streams' = IF key \in idem THEN streams
                       ELSE [streams EXCEPT
                               ![sid] = Put(@, ClientResponse(e.request_id),
                                            NoEid, 0)]
         /\ request_streams' = Acquire(request_streams,
                                      RelatedRequestId(e.related))
    /\ resp' = [resp EXCEPT ![n] = "send"]
    /\ UNCHANGED <<frontend, executor, session, memo, memoizeStarted, write_request_ids, hm, cur,
                   run, hpos, srvNext, elicitText, cancel, cancelPending,
                   client, env>>

\* The positions of Run at which the engine reads its read stream.
EngineReading == {"recv_inbound", "handler", "elicit_send", "await_result",
                  "drain"}

\* read_stream_send.send(message) whose response reaches no waiting
\* request of the engine.
Resp_Send_ResultLost(n) ==
    /\ resp[n] = "send"
    /\ Uuid4(n) \in WriteRequestKeys
    /\ LET r == WriteRequestEntry(n).related IN
         /\ run[r] \in EngineReading
         /\ RequestStreamsKey(RelatedRequestId(r))
                = RequestStreamsKey(RequestId(r))
         /\ ~StreamsOf(RelatedRequestId(r)).readClosed
         /\ request_streams' = Release(request_streams,
                                      RelatedRequestId(r))
    /\ resp' = [resp EXCEPT ![n] = "done"]
    /\ UNCHANGED <<frontend, executor, durable, write_request_ids, hm, cur, run, hpos,
                   srvNext, elicitText, cancel, cancelPending, client, env>>

\* read_stream_send.send(message): the engine receives the response; the
\* elicit that waits for this request id gets its result, which
\* at_least_once("Send request, wait for result") records.
Resp_Send(n) ==
    /\ resp[n] = "send"
    /\ Uuid4(n) \in WriteRequestKeys
    /\ LET e == WriteRequestEntry(n)
           r == e.related IN
         /\ run[r] \in EngineReading
         /\ RequestStreamsKey(RelatedRequestId(r))
                = RequestStreamsKey(RequestId(r))
         /\ ~StreamsOf(RelatedRequestId(r)).readClosed
         /\ IF run[r] = "await_result" /\ e.request_id = SrvId(srvNext[r] - 1)
            THEN /\ memo' = [memo EXCEPT ![r].elicit = "accept"]
                 /\ run' = [run EXCEPT ![r] = "handler"]
                 /\ hpos' = [hpos EXCEPT ![r] = @ + 1]
            ELSE UNCHANGED <<memo, run, hpos>>
         /\ request_streams' = Release(request_streams,
                                      RelatedRequestId(r))
         /\ delivered' = delivered \cup
                {[n |-> n, to |-> r, message |-> ClientResponse(e.request_id)]}
    /\ resp' = [resp EXCEPT ![n] = "done"]
    /\ UNCHANGED <<frontend, executor, streams, session, idem, memoizeStarted, write_request_ids,
                   hm, cur, srvNext, elicitText, cancel, cancelPending,
                   client, method, clientName, uuid4_next, restarts, emitted,
                   elicited>>

\* writer() / replay_events_after: the replay of the request's stream hands
\* the transport, for the client, the next event after the last one it
\* received; after a disconnect the client resumes with that id as
\* Last-Event-ID.  The replay ends with the response or error.
ClientDeliver(r) ==
    /\ hm[r] # "idle"
    /\ ~ClientDone(r)
    /\ LET events == Replay(streams[qualified_stream_id(RelatedRequestId(r))],
                             LastEventId(r)) IN
         /\ events # << >>
         /\ clientSeen' = [clientSeen EXCEPT
                             ![r] = Append(@, [id |-> events[1].event_id,
                                               kind |-> events[1].message.kind])]
    /\ UNCHANGED <<frontend, executor, durable, inmem, answered, env>>

\* The client answers an elicitation it received: the response is posted
\* and HandleMessage is spawned for it.
ClientAnswer(r, n) ==
    /\ n \notin answered
    /\ \E i \in 1..Len(clientSeen[r]) :
          clientSeen[r][i] = [id |-> Uuid4(n), kind |-> "request"]
    /\ answered' = answered \cup {n}
    /\ resp' = [resp EXCEPT ![n] = "check"]
    /\ UNCHANGED <<frontend, executor, durable, request_streams, write_request_ids, hm, cur, run,
                   hpos, srvNext, elicitText, cancel, cancelPending,
                   clientSeen, env>>

\* The client answers an elicitation it received with a JSON-RPC error:
\* the message is a JSONRPCError, for which HandleMessage has no branch; it
\* logs "UNIMPLEMENTED" and returns.
ClientAnswerError(r, n) ==
    /\ n \notin answered
    /\ \E i \in 1..Len(clientSeen[r]) :
          clientSeen[r][i] = [id |-> Uuid4(n), kind |-> "request"]
    /\ answered' = answered \cup {n}
    /\ resp' = [resp EXCEPT ![n] = "unimplemented"]
    /\ UNCHANGED <<frontend, executor, durable, request_streams,
                   write_request_ids, hm, cur, run, hpos, srvNext, elicitText,
                   cancel, cancelPending, clientSeen, env>>

\* ----------------------------------------------------------------- restart
Unfinished(pc) == pc \notin {"idle", "none", "done", "unimplemented"}

\* The replica goes down and comes up: the in-memory state is lost and
\* every unfinished workflow is executed again from its start.
Restart ==
    /\ restarts < MaxRestarts
    /\ Cardinality({q \in Requests : Unfinished(hm[q])}) <= MaxInterrupted
    /\ \/ \E r \in Requests : Unfinished(hm[r]) \/ Unfinished(run[r])
       \/ \E n \in Uuid4s : Unfinished(resp[n])
    /\ restarts' = restarts + 1
    /\ request_streams' = [k \in RequestIds |-> NoStreams]
    /\ write_request_ids' = {}
    /\ hm' = [r \in Requests |-> IF Unfinished(hm[r]) THEN "store_stream"
                                 ELSE hm[r]]
    /\ run' = [r \in Requests |-> IF Unfinished(run[r]) THEN "enter"
                                  ELSE run[r]]
    /\ resp' = [n \in Uuid4s |-> IF Unfinished(resp[n]) THEN "check"
                                 ELSE resp[n]]
    /\ cur' = [r \in Requests |-> NoMsg]
    /\ hpos' = [r \in Requests |-> 0]
    /\ srvNext' = [r \in Requests |-> 0]
    /\ elicitText' = [r \in Requests |-> <<>>]
    /\ cancel' = [r \in Requests |-> "none"]
    /\ cancelPending' = [r \in Requests |-> {}]
    /\ UNCHANGED <<frontend, executor, durable, client, method, clientName, uuid4_next,
                   emitted, elicited, delivered>>

\* --------------------------------------------------- front end: GET request
\* A string without "/" as a token of the strings that event ids make up.
Literal(text) == Eid("", text, 0, "", "", 0, 0)

SLASH == Literal("/")

\* qualified_event_id: f"{request_id}/{event_id}", the id the client gets
\* with an event and sends back as Last-Event-ID.  The request id of the
\* aggregate stream is "VSCODE_GET".
qualified_event_id(request_id, event_id) ==
    << RidOf(request_id), SLASH, event_id >>

\* The Last-Event-ID the front end gives a GET of Visual Studio Code that
\* has none.
VSCODE_INITIAL_GET_LAST_EVENT_ID ==
    << Literal("VSCODE_INITIAL_GET_LAST_EVENT_ID") >>

\* string.split(sep): the pieces of the string between the occurrences of
\* sep.
RECURSIVE split(_, _)
split(string, sep) ==
    IF \A i \in 1..Len(string) : string[i] # sep THEN << string >>
    ELSE LET i == CHOOSE k \in 1..Len(string) :
                      /\ string[k] = sep
                      /\ \A j \in 1..(k - 1) : string[j] # sep
         IN << SubSeq(string, 1, i - 1) >>
                \o split(SubSeq(string, i + 1, Len(string)), sep)

\* The client opens a GET on the session, with no Last-Event-ID or with the
\* qualified id of the last event it received for one of its requests.
ClientGet ==
    /\ get = "none"
    /\ \E h \in {<< >>} \cup {qualified_event_id(r, LastEventId(r)) :
                               r \in {q \in Requests : clientSeen[q] # << >>}} :
         /\ getHeader' = h
         /\ get' = IF h = << >> THEN "is_vscode" ELSE "replay_events_after"
    /\ UNCHANGED <<durable, inmem, client, env, executor, side, sendvars, getSeen>>

\* if request.method == "GET" and "last-event-id" not in request.headers:
\* is_vscode() polls until client_info is populated; for Visual Studio Code
\* the header is set and the transport, which finds a Last-Event-ID, calls
\* replay_events_after; for another client the transport opens its
\* standalone stream.
GET_IsVscode ==
    /\ get = "is_vscode"
    /\ session.client_info # ""
    /\ IF is_vscode(session.client_info) = "yes"
       THEN /\ getHeader' = VSCODE_INITIAL_GET_LAST_EVENT_ID
            /\ get' = "replay_events_after"
       ELSE /\ get' = "standalone"
            /\ UNCHANGED getHeader
    /\ UNCHANGED <<durable, inmem, client, env, executor, side, sendvars, getSeen>>

\* DurableEventStore.replay_events_after:
\* request_id, last_event_id = qualified_last_event_id.split("/") raises
\* ValueError unless the split gives two pieces.
GET_ReplayEventsAfter ==
    /\ get = "replay_events_after"
    /\ get' = IF Len(split(getHeader, SLASH)) = 2 THEN "replay"
              ELSE "raised"
    /\ UNCHANGED <<durable, inmem, client, env, executor, side, sendvars,
                   getHeader, getSeen>>

\* The stream and the last event id replay reads with: those of the header
\* at first, then the id of the last event it got.
GetStreamId == qualified_stream_id(StrId(split(getHeader, SLASH)[1][1].r))
GetLastEventId ==
    IF getSeen = << >> THEN split(getHeader, SLASH)[2][1]
    ELSE getSeen[Len(getSeen)]

\* replay: the next event of stream.reactively().Replay(last_event_id) is
\* handed to send_callback; replay returns after a response or error.
GET_Replay ==
    /\ get = "replay"
    /\ LET events == Replay(streams[GetStreamId], GetLastEventId) IN
         /\ events # << >>
         /\ getSeen' = Append(getSeen, events[1].event_id)
         /\ get' = IF IsTerminal(events[1].message) THEN "returned"
                   ELSE "replay"
    /\ UNCHANGED <<durable, inmem, client, env, executor, side, sendvars,
                   getHeader>>

\* ---------------------------------------------- front end: send callback
\* The http.response.body messages of a response.
MaxBodyMessages == 2

HttpMethods == {"GET", "POST"}
Statuses == {200, 202}
ContentTypes == {"text/event-stream", "application/json"}

\* The ASGI messages of a response: http.response.start with the status and
\* the content-type header, then the bodies.
ResponseStart(status, content_type) ==
    [type |-> "http.response.start", status |-> status,
     content_type |-> content_type, n |-> 0]
ResponseBody(n) ==
    [type |-> "http.response.body", status |-> 0, content_type |-> "",
     n |-> n]

\* The transport answers an HTTP request of the session.
HTTP_Request ==
    /\ http = "none"
    /\ \E m \in HttpMethods, st \in Statuses, ct \in ContentTypes :
         httpRequest' = [method |-> m, status |-> st, content_type |-> ct]
    /\ http' = "start"
    /\ UNCHANGED <<durable, inmem, client, env, executor, side, getvars, drop,
                   handed, forwarded>>

\* post_send on http.response.start: is_vscode() is awaited only for status
\* 200 and content-type text/event-stream.
NeedsIsVscode(message) ==
    /\ message.status = 200
    /\ message.content_type = "text/event-stream"

\* A post_send that never sets drop.
post_send_drop_Never(message, client_info) == FALSE

\* post_send: the value of drop after http.response.start.
post_send_drop(message, client_info) ==
    NeedsIsVscode(message) /\ is_vscode(client_info) = "yes"

\* post_send: http.response.start is always sent, another message unless
\* drop is set.
post_send_sends(message, dropping) ==
    message.type = "http.response.start" \/ ~dropping

\* handle_request(scope, receive, send if request.method == "GET" else
\* post_send): the callback is given the message.
Send(message) ==
    /\ handed' = Append(handed, message)
    /\ IF httpRequest.method = "GET"
       THEN /\ forwarded' = Append(forwarded, message)
            /\ UNCHANGED drop
       ELSE /\ drop' = IF message.type = "http.response.start"
                       THEN post_send_drop(message, session.client_info)
                       ELSE drop
            /\ forwarded' = IF post_send_sends(message, drop')
                            THEN Append(forwarded, message) ELSE forwarded

\* The transport starts the response.  is_vscode() polls until client_info
\* is populated.
Send_Start ==
    /\ http = "start"
    /\ LET message == ResponseStart(httpRequest.status,
                                    httpRequest.content_type) IN
         /\ (httpRequest.method = "POST" /\ NeedsIsVscode(message))
                => session.client_info # ""
         /\ Send(message)
    /\ http' = "body"
    /\ UNCHANGED <<durable, inmem, client, env, executor, side, getvars,
                   httpRequest>>

\* The transport sends a body of the response, the last one ends it.
Send_Body ==
    /\ http = "body"
    /\ Send(ResponseBody(Len(handed)))
    /\ http' = IF Len(handed) = MaxBodyMessages THEN "done" ELSE "body"
    /\ UNCHANGED <<durable, inmem, client, env, executor, side, getvars,
                   httpRequest>>

\* ----------------------------------------------------------- specification
Next ==
    \/ \E r \in Requests : ClientPost(r)
    \/ \E r \in Requests : HM_StoreStream(r)
    \/ \E r \in Requests : HM_StoreInitialRequest(r)
    \/ \E r \in Requests : HM_StoreClientInfo(r)
    \/ \E r \in Requests : HM_Enter(r)
    \/ \E r \in Requests : SAR_Send(r)
    \/ \E r \in Requests : SAR_ReceiveFromEngine(r)
    \/ \E r \in Requests : SAR_ReceiveCancel(r)
    \/ \E r \in Requests : SAR_Put(r)
    \/ \E r \in Requests : SAR_CheckIsVscode(r)
    \/ \E r \in Requests : SAR_VscodePut(r)
    \/ \E r \in Requests : SAR_Memo(r)
    \/ \E r \in Requests : HM_AwaitRun(r)
    \/ \E r \in Requests : Run_Enter(r)
    \/ \E r \in Requests : Cancel_Read(r)
    \/ \E r \in Requests : Handler_Elicit(r)
    \/ \E r \in Requests : Elicit_Recorded(r)
    \/ \E r \in Requests : Run_Finish(r)
    \/ \E n \in Uuid4s : Resp_Check(n)
    \/ \E n \in Uuid4s : Resp_Put(n)
    \/ \E n \in Uuid4s : Resp_Send(n)
    \/ \E r \in Requests : ClientDeliver(r)
    \/ \E r \in Requests, n \in Uuid4s : ClientAnswer(r, n)
    \/ Restart

Spec == Init /\ [][Next]_vars

\* A step of a task of the server or of the writer of an open connection:
\* every step but a post or an answer of the client and a restart.
ServerStep ==
    \/ \E r \in Requests : HM_StoreStream(r)
    \/ \E r \in Requests : HM_StoreInitialRequest(r)
    \/ \E r \in Requests : HM_StoreClientInfo(r)
    \/ \E r \in Requests : HM_Enter(r)
    \/ \E r \in Requests : SAR_Send(r)
    \/ \E r \in Requests : SAR_ReceiveFromEngine(r)
    \/ \E r \in Requests : SAR_ReceiveCancel(r)
    \/ \E r \in Requests : SAR_Put(r)
    \/ \E r \in Requests : SAR_CheckIsVscode(r)
    \/ \E r \in Requests : SAR_VscodePut(r)
    \/ \E r \in Requests : SAR_Memo(r)
    \/ \E r \in Requests : HM_AwaitRun(r)
    \/ \E r \in Requests : Run_Enter(r)
    \/ \E r \in Requests : Cancel_Read(r)
    \/ \E r \in Requests : Handler_Elicit(r)
    \/ \E r \in Requests : Elicit_Recorded(r)
    \/ \E r \in Requests : Run_Finish(r)
    \/ \E n \in Uuid4s : Resp_Check(n)
    \/ \E n \in Uuid4s : Resp_Put(n)
    \/ \E n \in Uuid4s : Resp_Send(n)
    \/ \E r \in Requests : ClientDeliver(r)

\* The event loop runs a task that can run: while some task of the server
\* can take a step, one is taken.  Nothing is assumed of the client's posts
\* and answers or of restarts.
SpecLive == Spec /\ WF_vars(ServerStep)

\* The server steps: what runs whether or not a client reads a stream.
DetachedStep == ServerStep /\ clientSeen' = clientSeen

\* The workflows keep being executed; nothing is assumed of the client,
\* which may stop reading the stream of a request at any event.
SpecDetached == Spec /\ WF_vars(DetachedStep)

\* A step of the session while the replica stays up: nothing is executed
\* again, so no cancellation is sent and no recorded result is found.
SteadyStep ==
    \/ \E r \in Requests : ClientPost(r)
    \/ \E r \in Requests : HM_StoreStream(r)
    \/ \E r \in Requests : HM_StoreInitialRequest(r)
    \/ \E r \in Requests : HM_StoreClientInfo(r)
    \/ \E r \in Requests : HM_Enter(r)
    \/ \E r \in Requests : SAR_Send(r)
    \/ \E r \in Requests : SAR_ReceiveFromEngine(r)
    \/ \E r \in Requests : SAR_Put(r)
    \/ \E r \in Requests : SAR_CheckIsVscode(r)
    \/ \E r \in Requests : SAR_VscodePut(r)
    \/ \E r \in Requests : SAR_Memo(r)
    \/ \E r \in Requests : HM_AwaitRun(r)
    \/ \E r \in Requests : Run_Enter(r)
    \/ \E r \in Requests : Cancel_Read(r)
    \/ \E r \in Requests : Handler_Elicit(r)
    \/ \E r \in Requests : Run_Finish(r)
    \/ \E n \in Uuid4s : Resp_Check(n)
    \/ \E n \in Uuid4s : Resp_Put(n)
    \/ \E n \in Uuid4s : Resp_Send(n)
    \/ \E r \in Requests : ClientDeliver(r)
    \/ \E r \in Requests, n \in Uuid4s : ClientAnswer(r, n)

\* The session of a replica that stays up, with a client that may answer
\* an elicitation with an error; the event loop runs a task that can run.
NextErrors ==
    \/ SteadyStep
    \/ \E r \in Requests, n \in Uuid4s : ClientAnswerError(r, n)

SpecErrors == Init /\ [][NextErrors]_vars /\ WF_vars(ServerStep)

\* The session under effect validation.
NextValidated ==
    \/ Next
    \/ \E r \in Requests : SAR_Validate(r)

SpecValidated == Init /\ [][NextValidated]_vars

\* The session with the GET request of the client.
NextGet ==
    \/ SteadyStep
    \/ ClientGet
    \/ GET_IsVscode
    \/ GET_ReplayEventsAfter
    \/ GET_Replay

SpecGet == Init /\ [][NextGet]_vars

\* The session with the response to one of the client's HTTP requests.
NextSend ==
    \/ SteadyStep
    \/ HTTP_Request
    \/ Send_Start
    \/ Send_Body

SpecSend == Init /\ [][NextSend]_vars

\* ------------------------------------------- access token of a request
\* The way of the access token of a request from the task of its HTTP
\* request to the handler: the arguments of reader(), HandleMessage and Run.

\* The path the server is mounted at.
PATH == "/mcp"

\* An HTTP request with message r arrives: the authentication middleware
\* has set auth_context_var for its task, to the verified AccessToken or,
\* for a request without credentials, to nothing.
Token_Request(r, access_token) ==
    /\ tokenPc[r] = "none"
    /\ auth_context_var' = [auth_context_var EXCEPT ![r] = access_token]
    /\ tokenPc' = [tokenPc EXCEPT ![r] = "reader"]
    /\ UNCHANGED <<exceptToken, HandleMessageRequest, RunRequest, tokenSeen,
                   tokenRestarts>>

\* reader(): get_access_token(), from_model, spawn().HandleMessage(...).
Token_Reader(r) ==
    /\ tokenPc[r] = "reader"
    /\ LET access_token == auth_context_var[r]
           access_token_value ==
               IF access_token # NoAccessToken
               THEN << from_model(access_token) >>
               ELSE << >>
       IN  HandleMessageRequest' =
               [HandleMessageRequest EXCEPT ![r] =
                   [path |-> PATH, message_bytes |-> r,
                    access_token |-> access_token_value]]
    /\ tokenPc' = [tokenPc EXCEPT ![r] = "handle_message"]
    /\ UNCHANGED <<exceptToken, auth_context_var, RunRequest, tokenSeen,
                   tokenRestarts>>

\* HandleMessage of a client request: spawn().Run(path, message_bytes).
Token_HandleMessage(r) ==
    /\ tokenPc[r] = "handle_message"
    /\ RunRequest' =
           [RunRequest EXCEPT ![r] =
               [path |-> HandleMessageRequest[r].path,
                message_bytes |-> HandleMessageRequest[r].message_bytes]]
    /\ tokenPc' = [tokenPc EXCEPT ![r] = "run"]
    /\ UNCHANGED <<exceptToken, auth_context_var, HandleMessageRequest, tokenSeen,
                   tokenRestarts>>

\* auth_context_var in the task of Run(request): server_run sets _context
\* and nothing else before server.run, so the variable has its default.
server_run_auth_context(request) == NoAccessToken

\* Run: the handler calls get_access_token().
Token_Run(r) ==
    /\ tokenPc[r] = "run"
    /\ tokenSeen' =
           [tokenSeen EXCEPT ![r] =
               Append(@, server_run_auth_context(RunRequest[r]))]
    /\ tokenPc' = [tokenPc EXCEPT ![r] = "handler"]
    /\ UNCHANGED <<exceptToken, auth_context_var, HandleMessageRequest, RunRequest,
                   tokenRestarts>>

\* Run: the handler returns.
Token_Returned(r) ==
    /\ tokenPc[r] = "handler"
    /\ tokenPc' = [tokenPc EXCEPT ![r] = "done"]
    /\ UNCHANGED <<exceptToken, auth_context_var, HandleMessageRequest, RunRequest,
                   tokenSeen, tokenRestarts>>

\* The replica restarts: a Run that had not returned is executed again.
Token_Restart ==
    /\ tokenRestarts < MaxRestarts
    /\ \E r \in Requests : tokenPc[r] = "handler"
    /\ tokenRestarts' = tokenRestarts + 1
    /\ tokenPc' = [r \in Requests |->
                      IF tokenPc[r] = "handler" THEN "run" ELSE tokenPc[r]]
    /\ UNCHANGED <<exceptToken, auth_context_var, HandleMessageRequest, RunRequest,
                   tokenSeen>>

NextToken ==
    \/ \E r \in Requests :
          \E access_token \in
                  {AccessToken(token) : token \in BearerTokens}
                      \cup {NoAccessToken} :
              Token_Request(r, access_token)
    \/ \E r \in Requests : Token_Reader(r)
    \/ \E r \in Requests : Token_HandleMessage(r)
    \/ \E r \in Requests : Token_Run(r)
    \/ \E r \in Requests : Token_Returned(r)
    \/ Token_Restart

SpecToken == Init /\ [][NextToken]_vars

\* ------------------------------------------------ application front door
\* DurableMCP.__init__ raises no ValueError: the auth configuration is one
\* it accepts.
ValidAuthConfiguration_NoElif(auth, auth_server_provider, token_verifier) ==
    auth => /\ ~(auth_server_provider /\ token_verifier)
            /\ ~(~auth_server_provider /\ ~token_verifier)

ValidAuthConfiguration(auth, auth_server_provider, token_verifier) ==
    IF auth
    THEN /\ ~(auth_server_provider /\ token_verifier)
         /\ ~(~auth_server_provider /\ ~token_verifier)
    ELSE ~(auth_server_provider \/ token_verifier)

\* DurableMCP(auth=..., auth_server_provider=..., token_verifier=...).
App_Construct(auth, auth_server_provider, token_verifier) ==
    /\ mcp.state = "none"
    /\ mcp' = [state |->
                   IF ValidAuthConfiguration(auth, auth_server_provider,
                                             token_verifier)
                   THEN "constructed" ELSE "ValueError",
               auth |-> auth,
               auth_server_provider |-> auth_server_provider,
               token_verifier |-> token_verifier]
    /\ UNCHANGED <<exceptApp, pending, posted, uuid7_next, http_transports,
                   upstream, handled, status_code, transportvars>>

\* What a client puts in the Authorization header: nothing, a bearer token
\* the verifier accepts, one it does not.
Authorizations == {"none", "valid", "invalid"}

\* The value of the state-ref header for session sid, and no such header.
STATE_REF(mcp_session_id) == << "rbt.mcp.v1.Session", ":", mcp_session_id >>
NoHeader == << >>

\* StateRef.from_maybe_readable(session_ref).id
StateRefId(session_ref) == session_ref[Len(session_ref)]

\* A client makes an HTTP request: with or without credentials, without
\* mcp-session-id (0) or with the id of a session minted before.
App_Request(authorization, mcp_session_id) ==
    /\ mcp.state = "constructed"
    /\ Len(posted) < MaxHttpRequests
    /\ LET request == [n |-> Len(posted) + 1,
                       authorization |-> authorization,
                       mcp_session_id |-> mcp_session_id,
                       state_ref |-> NoHeader, at |-> "middleware"]
       IN  /\ posted' = Append(posted, request)
           /\ pending' = pending \cup {request}
    /\ UNCHANGED <<exceptApp, mcp, uuid7_next, http_transports, upstream,
                   handled, status_code, transportvars>>

\* A RequireAuthMiddleware that lets every request through.
RequireAuth_Open(token_verifier, authorization) == TRUE

\* The middleware of _streamable_http_app lets the request through to the
\* endpoint: there is no token verifier, or BearerAuthBackend authenticated
\* the user.
RequireAuth(token_verifier, authorization) ==
    token_verifier => authorization = "valid"

\* The Starlette application of _streamable_http_app receives a request:
\* the authentication middleware, then RequireAuthMiddleware, which answers
\* 401 or calls the endpoint.
App_Middleware(q) ==
    /\ q \in pending
    /\ q.at = "middleware"
    /\ IF RequireAuth(mcp.token_verifier, q.authorization)
       THEN /\ pending' = (pending \ {q}) \cup {[q EXCEPT !.at = "endpoint"]}
            /\ UNCHANGED <<status_code, response_start>>
       ELSE /\ pending' = pending \ {q}
            /\ status_code' = [status_code EXCEPT ![q.n] = 401]
            /\ response_start' = [response_start EXCEPT ![q.n] = @ + 1]
    /\ UNCHANGED <<exceptApp, mcp, posted, uuid7_next, http_transports,
                   upstream, handled, connect_tasks, connect_started>>

\* A front end that mints an id for every request without state-ref.
SessionIdOf_AlwaysMinted(mcp_session_id, uuid7) == uuid7

\* mcp_session_id or uuid7().hex
SessionIdOf(mcp_session_id, uuid7) ==
    IF mcp_session_id # 0 THEN mcp_session_id ELSE uuid7

\* StreamableHTTPASGIApp.__call__ for a request without state-ref: the
\* request is sent upstream with the state-ref header added, and arrives at
\* the application of the server of that session; when the proxy request
\* fails the answer is 500.
App_Forward(q, ok) ==
    /\ q \in pending
    /\ q.at = "endpoint"
    /\ q.state_ref = NoHeader
    /\ LET mcp_session_id == SessionIdOf(q.mcp_session_id, uuid7_next)
           headers == [q EXCEPT !.state_ref = STATE_REF(mcp_session_id),
                                !.at = "middleware"]
       IN  /\ uuid7_next' = IF q.mcp_session_id # 0
                            THEN uuid7_next ELSE uuid7_next + 1
           /\ IF ok
              THEN /\ pending' = (pending \ {q}) \cup {headers}
                   /\ upstream' = upstream \cup
                          {[request |-> q, headers |-> headers,
                            uuid7 |-> uuid7_next]}
                   /\ UNCHANGED <<status_code, response_start>>
              ELSE /\ pending' = pending \ {q}
                   /\ status_code' = [status_code EXCEPT ![q.n] = 500]
                   /\ response_start' =
                          [response_start EXCEPT ![q.n] = @ + 1]
                   /\ UNCHANGED upstream
    /\ UNCHANGED <<exceptApp, mcp, posted, http_transports, handled,
                   connect_tasks, connect_started>>

\* The upstream connection fails while the StreamingResponse relays the
\* body: the exception leaves `await response(scope, receive, send)` inside
\* the try, and the except clause sends Response(..., status_code=500).
App_StreamFails(n) ==
    /\ \E u \in upstream : u.request.n = n
    /\ response_start[n] = 1
    /\ status_code' = [status_code EXCEPT ![n] = 500]
    /\ response_start' = [response_start EXCEPT ![n] = @ + 1]
    /\ UNCHANGED <<exceptApp, mcp, pending, posted, uuid7_next,
                   http_transports, upstream, handled, connect_tasks,
                   connect_started>>

\* The session a request with state-ref is for.
McpSessionId(q) ==
    IF q.mcp_session_id = 0 THEN StateRefId(q.state_ref) ELSE q.mcp_session_id

\* transport.handle_request(scope, receive, send): the request is handed to
\* the transport of its session and answered.
HandleRequest(q) ==
    /\ handled' = handled \cup
           {[request |-> q, transport |-> McpSessionId(q),
             started |-> McpSessionId(q) \in connect_started]}
    /\ pending' = pending \ {q}
    /\ status_code' = [status_code EXCEPT ![q.n] = 200]
    /\ response_start' = [response_start EXCEPT ![q.n] = @ + 1]

\* StreamableHTTPASGIApp.__call__ for a request with state-ref: the
\* transport of its session handles it when _http_transports holds one;
\* otherwise a transport is created and put in the map, the task of
\* connect() is created and put in _connect_tasks, and the request waits
\* for `started`.
App_Handle(q) ==
    /\ q \in pending
    /\ q.at = "endpoint"
    /\ q.state_ref # NoHeader
    /\ IF McpSessionId(q) \in http_transports
       THEN /\ HandleRequest(q)
            /\ UNCHANGED <<http_transports, connect_tasks>>
       ELSE /\ http_transports' = http_transports \cup {McpSessionId(q)}
            /\ connect_tasks' = connect_tasks \cup {McpSessionId(q)}
            /\ pending' = (pending \ {q})
                               \cup {[q EXCEPT !.at = "started_wait"]}
            /\ UNCHANGED <<handled, status_code, response_start>>
    /\ UNCHANGED <<exceptApp, mcp, posted, uuid7_next, upstream,
                   connect_started>>

\* connect(): async with http_transport.connect() as streams:
\* started.set()
App_Connect(mcp_session_id) ==
    /\ mcp_session_id \in connect_tasks \ connect_started
    /\ connect_started' = connect_started \cup {mcp_session_id}
    /\ UNCHANGED <<exceptApp, mcp, pending, posted, uuid7_next,
                   http_transports, upstream, handled, status_code,
                   connect_tasks, response_start>>

\* await started.wait() returns and the transport handles the request that
\* created it.
App_Started(q) ==
    /\ q \in pending
    /\ q.at = "started_wait"
    /\ McpSessionId(q) \in connect_started
    /\ HandleRequest(q)
    /\ UNCHANGED <<exceptApp, mcp, posted, uuid7_next, http_transports,
                   upstream, connect_tasks, connect_started>>

\* done(task), the callback of the task of connect(): when the transport
\* is terminated the entries of the session are deleted from both maps.
App_Done(mcp_session_id, is_terminated) ==
    /\ mcp_session_id \in connect_started
    /\ \A q \in pending :
          q.at = "started_wait" => McpSessionId(q) # mcp_session_id
    /\ IF is_terminated
       THEN /\ connect_tasks' = connect_tasks \ {mcp_session_id}
            /\ http_transports' = http_transports \ {mcp_session_id}
            /\ connect_started' = connect_started \ {mcp_session_id}
       ELSE UNCHANGED <<connect_tasks, http_transports, connect_started>>
    /\ UNCHANGED <<exceptApp, mcp, pending, posted, uuid7_next, upstream,
                   handled, status_code, response_start>>

NextApp ==
    \/ \E auth, auth_server_provider, token_verifier \in BOOLEAN :
          App_Construct(auth, auth_server_provider, token_verifier)
    \/ \E authorization \in Authorizations :
          \E mcp_session_id \in 0..(uuid7_next - 1) :
              App_Request(authorization, mcp_session_id)
    \/ \E q \in pending : App_Middleware(q)
    \/ \E q \in pending : \E ok \in BOOLEAN : App_Forward(q, ok)
    \/ \E q \in pending : App_Handle(q)
    \/ \E mcp_session_id \in connect_tasks : App_Connect(mcp_session_id)
    \/ \E q \in pending : App_Started(q)
    \/ \E mcp_session_id \in connect_tasks, is_terminated \in BOOLEAN :
          App_Done(mcp_session_id, is_terminated)
    \/ \E n \in HttpRequests : App_StreamFails(n)

SpecApp == Init /\ [][NextApp]_vars

\* ---------------------------------------------------- numbers of a message
\* The values of the fields of a message: numbers and strings, and a dict
\* or a list holding one of them.
Scalars == {JsonInt(1), JsonFloat(2), JsonFloat(3), Str}
FieldValues ==
    Scalars \cup {Dict(<< v >>) : v \in Scalars}
            \cup {List(<< v >>) : v \in Scalars}

\* Fields of a message.
MaxFields == 2

\* The messages: dicts of one to MaxFields fields.
JsonMessages ==
    UNION {{Dict(items) : items \in [1..k -> FieldValues]} :
               k \in 1..MaxFields}

\* from_model then as_dict: the message as a protobuf Struct and back.  A
\* Struct has one kind of number, the double: every int comes back as the
\* float of its value.
RECURSIVE as_dict(_)
as_dict(value) ==
    IF value.t = "int" THEN JsonFloat(2 * value.n)
    ELSE [value EXCEPT !.items =
             [i \in 1..Len(value.items) |-> as_dict(value.items[i])]]

\* replace_whole_floats_with_ints(d)
RECURSIVE replace_whole_floats_with_ints(_)
replace_whole_floats_with_ints(d) ==
    [d EXCEPT !.items =
        [key \in 1..Len(d.items) |->
            LET value == d.items[key] IN
            IF value.t = "float" /\ value.n % 2 = 0
            THEN JsonInt(value.n \div 2)
            ELSE IF value.t = "dict"
            THEN replace_whole_floats_with_ints(value)
            ELSE value]]

\* The engine writes a message: it is stored as from_model(message).
Num_Put(message) ==
    /\ numPc = "none"
    /\ numMessage' = message
    /\ numStored' = as_dict(message)
    /\ numPc' = "stored"
    /\ UNCHANGED <<exceptNum, numDecoded>>

\* replay: model_validate(replace_whole_floats_with_ints(as_dict(...))).
Num_Replay ==
    /\ numPc = "stored"
    /\ numDecoded' = replace_whole_floats_with_ints(numStored)
    /\ numPc' = "decoded"
    /\ UNCHANGED <<exceptNum, numMessage, numStored>>

NextNum ==
    \/ \E message \in JsonMessages : Num_Put(message)
    \/ Num_Replay

SpecNum == Init /\ [][NextNum]_vars

\* ------------------------------------------------- event aliases of a tool
\* One tool, its invocations by the wrapper of _wrap_tool, and the calls it
\* makes of report_progress, log, elicit and session.send_*_list_changed.

\* Invocations of the tool (a first one, and one after a restart or for
\* another request), and calls in an invocation.
MaxInvocations == 2
MaxCalls == 2

\* The functions of the context and those of context.session.
ContextFunctions == {"report_progress", "log", "elicit"}
SessionFunctions == {"send_resource_list_changed"}

\* The arguments of a call as they are formatted into the alias, in pieces:
\* "x", and "x #1".
Whys == {<< "x" >>, << "x", " #", "1" >>}

\* context.task.iteration as formatted, "" when not within_loop().
Iterations == {"", "1", "2"}

\* event_alias: f"{function_name}: {why}" in DurableSession._event_id,
\* f"{function_name}({arguments})" in the functions of the context, and
\* f" #{iteration}" after it within a loop.
event_alias(function_name, why, iteration) ==
    (IF function_name \in SessionFunctions
     THEN << function_name, ": " >> \o why
     ELSE << function_name, "(" >> \o why \o << ")" >>)
    \o (IF iteration # "" THEN << " #", iteration >> ELSE << >>)

\* A wrapper that leaves the sets of aliases as they are.
Tool_Invoke_KeepsAliases ==
    /\ toolPc \in {"none", "raised", "returned"}
    /\ invocations < MaxInvocations
    /\ invocations' = invocations + 1
    /\ aliasCalls' = << >>
    /\ aliasSent' = << >>
    /\ toolPc' = "running"
    /\ UNCHANGED <<exceptAlias, context_event_aliases,
                   session_event_aliases>>

\* wrapper(ctx, context, ...): context._event_aliases = set() and
\* context.session = DurableSession(ctx.session, context), then the tool.
Tool_Invoke ==
    /\ toolPc \in {"none", "raised", "returned"}
    /\ invocations < MaxInvocations
    /\ invocations' = invocations + 1
    /\ context_event_aliases' = {}
    /\ session_event_aliases' = {}
    /\ aliasCalls' = << >>
    /\ aliasSent' = << >>
    /\ toolPc' = "running"
    /\ UNCHANGED exceptAlias

\* The tool calls function_name: the alias is formed; TypeError is raised
\* when it is in the set of the aliases used, and ends the tool; otherwise
\* it is added to the set and the message is sent.
Tool_Call(function_name, why, iteration) ==
    /\ toolPc = "running"
    /\ Len(aliasCalls) < MaxCalls
    /\ LET alias == event_alias(function_name, why, iteration)
           used == IF function_name \in SessionFunctions
                   THEN session_event_aliases ELSE context_event_aliases
       IN  /\ aliasCalls' = Append(aliasCalls, alias)
           /\ IF alias \in used
              THEN /\ toolPc' = "raised"
                   /\ UNCHANGED <<context_event_aliases,
                                  session_event_aliases, aliasSent>>
              ELSE /\ IF function_name \in SessionFunctions
                      THEN /\ session_event_aliases' = used \cup {alias}
                           /\ UNCHANGED context_event_aliases
                      ELSE /\ context_event_aliases' = used \cup {alias}
                           /\ UNCHANGED session_event_aliases
                   /\ aliasSent' = Append(aliasSent, alias)
                   /\ UNCHANGED toolPc
    /\ UNCHANGED <<exceptAlias, invocations>>

\* The tool returns.
Tool_Return ==
    /\ toolPc = "running"
    /\ toolPc' = "returned"
    /\ UNCHANGED <<exceptAlias, invocations, context_event_aliases,
                   session_event_aliases, aliasCalls, aliasSent>>

NextAlias ==
    \/ Tool_Invoke
    \/ \E function_name \in ContextFunctions \cup SessionFunctions :
          \E why \in Whys, iteration \in Iterations :
              Tool_Call(function_name, why, iteration)
    \/ Tool_Return

SpecAlias == Init /\ [][NextAlias]_vars

\* ------------------------------------------------------ replay generator
\* One stream, the Puts that append to it, and one call of replay() on it.

\* Messages stored in the stream.
MaxMessages == 4

\* What is stored: events, which have an event id, of a notification, a
\* server request, a response or an error, and messages without event id.
Stored == {<<"notification", TRUE>>, <<"response", TRUE>>,
           <<"error", TRUE>>, <<"request", FALSE>>}

\* StreamServicer.Put: the message is appended.
Stream_Put(kind, has_event_id) ==
    /\ Len(state_messages) < MaxMessages
    /\ state_messages' = Append(state_messages,
           StoredMessage([kind |-> kind],
                         IF has_event_id THEN Uuid4(Len(state_messages) + 1)
                         ELSE NoEid,
                         0))
    /\ UNCHANGED <<exceptReplay, replayPc, replayFrom, replayLast,
                   replayEvents, replayIndex, yielded>>

\* A replay() that subscribes without the last_event_id it was given.
Replay_Call_WithoutLastEventId(last_event_id) ==
    /\ replayPc = "none"
    /\ replayFrom' = last_event_id
    /\ replayLast' = NoEid
    /\ replayPc' = "subscribed"
    /\ UNCHANGED <<exceptReplay, state_messages, replayEvents, replayIndex,
                   yielded>>

\* replay(context, session_id=..., request_id=..., last_event_id=...) is
\* called: by writer() without last_event_id, by replay_events_after with
\* the Last-Event-ID of the client, the id of an event of the stream or any
\* other.
Replay_Call(last_event_id) ==
    /\ replayPc = "none"
    /\ replayFrom' = last_event_id
    /\ replayLast' = last_event_id
    /\ replayPc' = "subscribed"
    /\ UNCHANGED <<exceptReplay, state_messages, replayEvents, replayIndex,
                   yielded>>

\* A replay() that ends when a response holds no events.
Replay_Response_EndsWhenEmpty ==
    /\ replayPc = "subscribed"
    /\ replayEvents' = Replay(state_messages, replayLast)
    /\ replayIndex' = 1
    /\ replayPc' = IF replayEvents' = << >> THEN "returned" ELSE "events"
    /\ UNCHANGED <<exceptReplay, state_messages, replayFrom, replayLast,
                   yielded>>

\* async for replay in stream.reactively().Replay(last_event_id): a
\* response without events is skipped, one with events is taken up.
Replay_Response ==
    /\ replayPc = "subscribed"
    /\ Replay(state_messages, replayLast) # << >>
    /\ replayEvents' = Replay(state_messages, replayLast)
    /\ replayIndex' = 1
    /\ replayPc' = "events"
    /\ UNCHANGED <<exceptReplay, state_messages, replayFrom, replayLast,
                   yielded>>

\* A replay() that subscribes again with the last_event_id it had.
Replay_Event_KeepsLastEventId ==
    /\ replayPc = "events"
    /\ yielded' = Append(yielded, replayEvents[replayIndex].event_id)
    /\ IF IsTerminal(replayEvents[replayIndex].message)
       THEN replayPc' = "returned" /\ UNCHANGED <<replayLast, replayIndex>>
       ELSE IF replayIndex < Len(replayEvents)
       THEN replayIndex' = replayIndex + 1
            /\ UNCHANGED <<replayPc, replayLast>>
       ELSE replayPc' = "subscribed" /\ UNCHANGED <<replayLast, replayIndex>>
    /\ UNCHANGED <<exceptReplay, state_messages, replayFrom, replayEvents>>

\* for event in replay.events: the event is yielded; replay returns after a
\* response or an error; after the last event of the response
\* last_event_id is set to its id and the loop subscribes again.
Replay_Event ==
    /\ replayPc = "events"
    /\ yielded' = Append(yielded, replayEvents[replayIndex].event_id)
    /\ IF IsTerminal(replayEvents[replayIndex].message)
       THEN replayPc' = "returned" /\ UNCHANGED <<replayLast, replayIndex>>
       ELSE IF replayIndex < Len(replayEvents)
       THEN replayIndex' = replayIndex + 1
            /\ UNCHANGED <<replayPc, replayLast>>
       ELSE /\ replayLast' = replayEvents[Len(replayEvents)].event_id
            /\ replayPc' = "subscribed"
            /\ UNCHANGED replayIndex
    /\ UNCHANGED <<exceptReplay, state_messages, replayFrom, replayEvents>>

NextReplay ==
    \/ \E stored \in Stored : Stream_Put(stored[1], stored[2])
    \/ \E last_event_id \in
           {NoEid} \cup {Uuid4(n) : n \in 1..(MaxMessages + 1)} :
          Replay_Call(last_event_id)
    \/ Replay_Response
    \/ Replay_Event

\* The generator is consumed: the writer task and send_callback take each
\* event, and the reactive reader delivers a response for every state of
\* the stream.
SpecReplay ==
    /\ Init
    /\ [][NextReplay]_vars
    /\ WF_vars(Replay_Response)
    /\ WF_vars(Replay_Event)

\* ------------------------------------------------------- workflow executor
\* at_least_once and at_most_once of reboot.aio.workflows, as the tools of
\* tests/ and examples/ call them.  Two handlers are executed, retried after
\* an exception or a crash and entered again after they returned: one with
\* an at_least_once step (create_user of examples/steps), one with an
\* at_most_once step with retryable_exceptions=[NetworkError]
\* (process_payment of examples/processing).

\* Executions of a handler: one more than can fail, and one re-entry.
MaxRuns == MaxFaults + 2

\* retryable_exceptions of the at_most_once step, and what its fn may raise.
RetryableExceptions == {"NetworkError"}
Exceptions == {"NetworkError", "PaymentRejectedError"}

\* An at_least_once step that takes no step for recorded.
ALO_Recorded_Never(step) == FALSE

\* at_least_once: a prior execution of the step completed.
ALO_Recorded(step) == step.status = "completed"

\* The executor starts, or starts again, the at_least_once handler.
ALO_Start ==
    /\ aloPc = "idle"
    /\ aloRuns < MaxRuns
    /\ aloRuns' = aloRuns + 1
    /\ aloPc' = "enter"
    /\ UNCHANGED <<frontend, durable, inmem, client, env, aloStep, amoStep, amoPc,
                   amoRuns, faults, aloCalls, aloLog, amoLog>>

\* at_least_once(why, ctx, fn): the recorded value without invoking fn, or
\* the invocation of fn.
ALO_Enter ==
    /\ aloPc = "enter"
    /\ IF ALO_Recorded(aloStep)
       THEN /\ aloLog' = Append(aloLog, aloStep.value)
            /\ aloPc' = "idle"
            /\ UNCHANGED aloCalls
       ELSE /\ aloCalls' = aloCalls + 1
            /\ aloPc' = "fn"
            /\ UNCHANGED aloLog
    /\ UNCHANGED <<frontend, durable, inmem, client, env, aloStep, amoStep, amoPc,
                   aloRuns, amoRuns, faults, amoLog>>

\* fn returns: completed(v) is committed and v returned.  The value of an
\* invocation is its number, so that two invocations differ.
ALO_FnReturns ==
    /\ aloPc = "fn"
    /\ aloStep' = [status |-> "completed", value |-> aloCalls]
    /\ aloLog' = Append(aloLog, aloCalls)
    /\ aloPc' = "idle"
    /\ UNCHANGED <<frontend, durable, inmem, client, env, amoStep, amoPc, aloRuns,
                   amoRuns, faults, aloCalls, amoLog>>

\* fn raises: the exception bubbles, nothing is committed.
ALO_FnRaises ==
    /\ aloPc = "fn"
    /\ faults < MaxFaults
    /\ faults' = faults + 1
    /\ aloPc' = "idle"
    /\ UNCHANGED <<frontend, durable, inmem, client, env, aloStep, amoStep, amoPc,
                   aloRuns, amoRuns, aloCalls, aloLog, amoLog>>

\* An entry into the at_most_once step: how it ended ("pending" until it
\* has), whether fn was invoked, what was raised to the handler.
Entry(out, invoked, raised) ==
    [out |-> out, invoked |-> invoked, raised |-> raised]

\* An at_most_once that enters a step left in `started`.
AMO_Decide_ReenterStarted(status) ==
    IF status \in {"not_started", "started"} THEN "invoke"
    ELSE IF status = "completed" THEN "return"
    ELSE "raise"

\* at_most_once on entry: invoke fn for a step not started, return the
\* recorded result of a completed one, raise
\* AtMostOnceFailedBeforeCompleting for one left started or failed.
AMO_Decide(status) ==
    IF status = "not_started" THEN "invoke"
    ELSE IF status = "completed" THEN "return"
    ELSE "raise"

\* An at_most_once that commits nothing before it calls fn.
Fence1_Skipped(step) == step

\* Commit fence 1: not_started -> started, before fn is called.
Fence1(step) == [step EXCEPT !.status = "started"]

\* An at_most_once that rolls back whatever fn raises.
StatusAfter_AlwaysRollBack(exc) == "not_started"

\* The status committed when fn raises exc.
StatusAfter(exc) ==
    IF exc \in RetryableExceptions THEN "not_started" ELSE "failed"

\* amoLog with its last entry replaced.
SetLast(log, entry) == [log EXCEPT ![Len(log)] = entry]

\* The executor starts, or starts again, the at_most_once handler.
AMO_Start ==
    /\ amoPc = "idle"
    /\ amoRuns < MaxRuns
    /\ amoRuns' = amoRuns + 1
    /\ amoPc' = "enter"
    /\ UNCHANGED <<frontend, durable, inmem, client, env, aloStep, amoStep, aloPc,
                   aloRuns, faults, aloCalls, aloLog, amoLog>>

\* at_most_once(why, ctx, fn, retryable_exceptions=[...]) on entry.
AMO_Enter ==
    /\ amoPc = "enter"
    /\ LET decision == AMO_Decide(amoStep.status) IN
         IF decision = "invoke"
         THEN /\ amoStep' = Fence1(amoStep)
              /\ amoLog' = Append(amoLog, Entry("pending", FALSE, "none"))
              /\ amoPc' = "call"
         ELSE IF decision = "return"
         THEN /\ amoLog' = Append(amoLog, Entry("recorded", FALSE, "none"))
              /\ amoPc' = "idle"
              /\ UNCHANGED amoStep
         ELSE /\ amoLog' = Append(amoLog,
                      Entry("refused", FALSE, "AtMostOnceFailedBeforeCompleting"))
              /\ amoPc' = "idle"
              /\ UNCHANGED amoStep
    /\ UNCHANGED <<frontend, durable, inmem, client, env, aloStep, aloPc, aloRuns,
                   amoRuns, faults, aloCalls, aloLog>>

\* fn is invoked.
AMO_Call ==
    /\ amoPc = "call"
    /\ amoLog' = SetLast(amoLog, Entry("pending", TRUE, "none"))
    /\ amoPc' = "fn"
    /\ UNCHANGED <<frontend, durable, inmem, client, env, aloStep, amoStep, aloPc,
                   aloRuns, amoRuns, faults, aloCalls, aloLog>>

\* fn returns: commit fence 2, completed(v), and v is returned.
AMO_FnReturns ==
    /\ amoPc = "fn"
    /\ amoStep' = [amoStep EXCEPT !.status = "completed"]
    /\ amoLog' = SetLast(amoLog, Entry("ok", TRUE, "none"))
    /\ amoPc' = "idle"
    /\ UNCHANGED <<frontend, durable, inmem, client, env, aloStep, aloPc, aloRuns,
                   amoRuns, faults, aloCalls, aloLog>>

\* fn raises exc: the status of StatusAfter is committed and exc raised to
\* the handler.
AMO_FnRaises(exc) ==
    /\ amoPc = "fn"
    /\ faults < MaxFaults
    /\ faults' = faults + 1
    /\ amoStep' = [amoStep EXCEPT !.status = StatusAfter(exc)]
    /\ amoLog' = SetLast(amoLog,
                         Entry(IF exc \in RetryableExceptions
                               THEN "retryable" ELSE "fatal", TRUE, exc))
    /\ amoPc' = "idle"
    /\ UNCHANGED <<frontend, durable, inmem, client, env, aloStep, aloPc, aloRuns,
                   amoRuns, aloCalls, aloLog>>

\* The process crashes: the executions are lost, the committed statuses
\* stay, and the executor will execute the handlers again.
ExecutorCrash ==
    /\ faults < MaxFaults
    /\ aloPc # "idle" \/ amoPc # "idle"
    /\ faults' = faults + 1
    /\ aloPc' = "idle"
    /\ amoPc' = "idle"
    /\ amoLog' = IF amoPc \in {"call", "fn"}
                 THEN SetLast(amoLog, [amoLog[Len(amoLog)] EXCEPT
                                         !.out = "crashed"])
                 ELSE amoLog
    /\ UNCHANGED <<frontend, durable, inmem, client, env, aloStep, amoStep, aloRuns,
                   amoRuns, aloCalls, aloLog>>

NextSteps ==
    \/ ALO_Start
    \/ ALO_Enter
    \/ ALO_FnReturns
    \/ ALO_FnRaises
    \/ AMO_Start
    \/ AMO_Enter
    \/ AMO_Call
    \/ AMO_FnReturns
    \/ \E exc \in Exceptions : AMO_FnRaises(exc)
    \/ ExecutorCrash

\* The executor keeps executing a handler that has not returned, and fn
\* ends: it returns or raises.
SpecSteps ==
    /\ Init
    /\ [][NextSteps]_vars
    /\ WF_vars(ALO_Start)
    /\ WF_vars(ALO_Enter)
    /\ WF_vars(ALO_FnReturns \/ ALO_FnRaises)

\* ------------------------------------------------------------------ claims
\* The positions in stream s of its Response and Error events.
TerminalEvents(s) ==
    {i \in 1..Len(streams[s]) :
        streams[s][i].event_id # NoEid /\ IsTerminal(streams[s][i].message)}

\* The engine sent the message of call op of request r in two process lives.
SentInTwoLives(r, op) ==
    \E a, b \in emitted :
        /\ a.r = r /\ b.r = r
        /\ a.op.op = op /\ b.op = a.op
        /\ a.life # b.life

\* C1 (unique terminal): the stream of every request holds at most one
\* Response or Error event in every reachable state, restarts and handler
\* re-execution included, and exactly one once HandleMessage of the request
\* has completed.
C1_UniqueTerminal ==
    \A r \in Requests :
        /\ Cardinality(TerminalEvents(r)) <= 1
        /\ hm[r] = "done" => Cardinality(TerminalEvents(r)) = 1

\* HandleMessage of a request completed whose final message the engine sent
\* before and again after a restart.
C1_Witness ==
    \E r \in Requests : hm[r] = "done" /\ SentInTwoLives(r, "return")

\* C2 (terminal is last): no event follows the Response or Error event of a
\* request in its stream, also when HandleMessage and Run are re-executed
\* after a restart and cancellations are synthesized.
C2_TerminalIsLast ==
    \A r \in Requests : \A i \in TerminalEvents(r) :
        \A j \in (i + 1)..Len(streams[r]) : streams[r][j].event_id = NoEid

\* C3 (event-id uniqueness): no two stored messages of a stream, a request's
\* stream or the aggregate stream, carry the same event id, for every
\* interleaving of concurrent requests, re-executions and restarts.
C3_EventIdUniqueness ==
    \A s \in StreamIds : \A i, j \in 1..Len(streams[s]) :
        (i # j /\ streams[s][i].event_id # NoEid)
            => streams[s][i].event_id # streams[s][j].event_id

\* The aggregate stream holds the events of two requests, one of which sent
\* a notification in two process lives.
C3_Witness ==
    /\ \E r \in Requests : \E op \in {"report_progress", "log"} :
          SentInTwoLives(r, op) /\ hm[r] = "done"
    /\ \A r \in Requests : \E i \in 1..Len(streams[VSCODE_GET]) :
          streams[VSCODE_GET][i].event_id = RidOf(r)

\* C4 (replay monotonicity): for a stream whose events are e1..en, Replay
\* with the id of ek returns exactly e(k+1)..en in append order, and Replay
\* without a last event id returns e1..en.
C4_ReplayMonotonicity ==
    \A s \in StreamIds :
        LET events == StreamEvents(streams[s]) IN
        /\ Replay(streams[s], NoEid) = events
        /\ EventStoreReplay(events, NoEid) = events
        /\ \A k \in 1..Len(events) :
              /\ Replay(streams[s], events[k].event_id)
                    = SubSeq(events, k + 1, Len(events))
              /\ EventStoreReplay(events, events[k].event_id)
                    = SubSeq(events, k + 1, Len(events))

\* A stream of at least three events of which the client received the
\* first, and after a restart the next ones.
C4_Witness ==
    \E r \in Requests :
        /\ restarts > 0
        /\ Len(StreamEvents(streams[r])) >= 3
        /\ Len(clientSeen[r]) >= 3

\* The event id of the progress notification of the "add" tool.
ProgressId(r) == event_id_of(r, Program("add")[1])

\* C5 (tool call survives reboot): the progress notification a re-executed
\* handler sends again is stored once in the request's stream, and the
\* client, resuming the request's stream from its last event id, receives
\* it once and before the final result, with which its events end.
C5_ProgressOnceThenResult ==
    \A r \in Requests : method[r] = "add" =>
        LET stored == {i \in 1..Len(streams[r]) :
                          streams[r][i].event_id = ProgressId(r)}
            seen == {i \in 1..Len(clientSeen[r]) :
                        clientSeen[r][i].id = ProgressId(r)}
        IN /\ Cardinality(stored) <= 1
           /\ Cardinality(seen) <= 1
           /\ ClientDone(r) =>
                /\ Cardinality(seen) = 1
                /\ clientSeen[r][Len(clientSeen[r])].kind = "response"
                /\ \A i \in 1..(Len(clientSeen[r]) - 1) :
                      clientSeen[r][i].kind \notin {"response", "error"}

\* The client has the final result of an "add" call whose handler reported
\* its progress before and again after a restart.
C5_Witness ==
    \E r \in Requests :
        /\ method[r] = "add"
        /\ ClientDone(r)
        /\ SentInTwoLives(r, "report_progress")

\* The entries into the at_most_once step that invoked fn.
Invocations == {i \in 1..Len(amoLog) : amoLog[i].invoked}

\* C6 (at-most-once safety), as stated: fn of an at_most_once step is
\* invoked at most once across all retries and re-entries, whatever the
\* outcome of the earlier attempts.
C6_InvokedAtMostOnce == Cardinality(Invocations) <= 1

\* C6, amended: at most one invocation of fn ends otherwise than by raising
\* an exception listed in retryable_exceptions.
C6_AtMostOnceUnlessRetryable ==
    Cardinality({i \in Invocations : amoLog[i].out # "retryable"}) <= 1

\* fn raised a retryable exception, was invoked again and returned, and the
\* step was entered once more.
C6_Witness ==
    \E i, j, k \in 1..Len(amoLog) :
        /\ i < j /\ j < k
        /\ amoLog[i].out = "retryable"
        /\ amoLog[j].out = "ok"
        /\ amoLog[k].out = "recorded"

\* C7: after a crash between the commit of `started` and the commit of
\* `completed`, every later entry into the step raises
\* AtMostOnceFailedBeforeCompleting and does not invoke fn.
C7_CrashWhileStarted ==
    \A i \in 1..Len(amoLog) : amoLog[i].out = "crashed" =>
        /\ amoStep.status = "started"
        /\ \A j \in (i + 1)..Len(amoLog) :
              amoLog[j] = Entry("refused", FALSE,
                                "AtMostOnceFailedBeforeCompleting")

\* The process crashed while fn ran and the step was entered twice since.
C7_Witness ==
    \E i \in 1..Len(amoLog) :
        /\ amoLog[i] = Entry("crashed", TRUE, "none")
        /\ Len(amoLog) >= i + 2

\* C8: an exception listed in retryable_exceptions is re-raised with the
\* step committed back to `not_started`, and the next entry enters the step
\* again; any other exception is raised with the step committed `failed`,
\* and every later entry raises AtMostOnceFailedBeforeCompleting.
C8_RetryableRollsBack ==
    \A i \in 1..Len(amoLog) :
        /\ amoLog[i].out = "retryable" =>
              /\ amoLog[i].raised \in RetryableExceptions
              /\ i = Len(amoLog) => amoStep.status = "not_started"
              /\ i < Len(amoLog) =>
                    amoLog[i + 1].out \notin {"refused", "recorded"}
        /\ amoLog[i].out = "fatal" =>
              /\ amoLog[i].raised \in Exceptions \ RetryableExceptions
              /\ amoStep.status = "failed"
              /\ \A j \in (i + 1)..Len(amoLog) :
                    amoLog[j] = Entry("refused", FALSE,
                                      "AtMostOnceFailedBeforeCompleting")

\* fn raised a retryable exception, was invoked again and raised another
\* exception, and the step was entered once more.
C8_Witness ==
    \E i \in 1..Len(amoLog) :
        /\ i + 2 <= Len(amoLog)
        /\ amoLog[i].out = "retryable"
        /\ amoLog[i + 1].out = "fatal"
        /\ amoLog[i + 2].out = "refused"

\* C9 (at-least-once liveness): when the failures end and the handler keeps
\* being retried, at_least_once eventually records a completion, and every
\* value it returns is the recorded one.
C9_AtLeastOnce ==
    /\ <>(aloStep.status = "completed")
    /\ [](\A i \in 1..Len(aloLog) :
             aloStep.status = "completed" /\ aloLog[i] = aloStep.value)

\* An invocation of fn did not complete, a later one completed the step,
\* and at_least_once has returned twice.
C9_Witness ==
    /\ aloStep.status = "completed"
    /\ aloCalls >= 2
    /\ Len(aloLog) >= 2

\* The durable-context calls that send a notification.
NotificationOps ==
    {"report_progress", "log", "send_resource_list_changed"}

ElicitationsSent(r) == {e \in emitted : e.r = r /\ e.op.op = "elicit"}

\* The process life in which the handler of request r first issued elicit.
FirstElicitLife(r) ==
    CHOOSE l \in {x.life : x \in elicited} :
        /\ [r |-> r, life |-> l] \in elicited
        /\ \A x \in elicited : x.r = r => l <= x.life

\* C11 (elicitation after reconnect): the elicitation request sent the
\* first time elicit is issued carries the message unchanged, and the one
\* sent when the handler re-enters the elicit after a restart, no result
\* being recorded, carries it prefixed with "Sorry, we got disconnected and
\* need to try again: ".
C11_ElicitationAfterReconnect ==
    \A r \in Requests : \A e \in ElicitationsSent(r) :
        e.text = IF e.life = FirstElicitLife(r)
                 THEN <<"", e.op.why>>
                 ELSE <<RETRY_PREFIX, e.op.why>>

\* An elicitation was sent with the message unchanged before a restart and
\* sent again, prefixed, after it.
C11_Witness ==
    \E r \in Requests : \E a, b \in ElicitationsSent(r) :
        /\ a.life = 0 /\ a.text = <<"", "Confirm?">>
        /\ b.life = 1 /\ b.text = <<RETRY_PREFIX, "Confirm?">>


\* The elicitation of request r was sent before a restart and sent again in
\* process life k, and the client answered the one sent in life k.
AnsweredResent(r, k) ==
    \E a, b \in ElicitationsSent(r) : \E n \in answered :
        /\ a.life < b.life
        /\ b.life = k
        /\ b.id = Uuid4(n)

\* The final responses or errors the client received for request r.
FinalResponsesDelivered(r) ==
    {i \in 1..Len(clientSeen[r]) :
        clientSeen[r][i].kind \in {"response", "error"}}

\* C12 (elicitation resumes): when an elicitation was unanswered at a
\* restart, was sent again in the process life k that is not interrupted
\* by a further restart, and the client answered the one sent again with
\* accept, the handler eventually completes and the client receives the
\* final response of the request; it never receives a second one.
C12_ElicitationResumes ==
    /\ \A k \in 0..MaxRestarts :
          <>[](restarts = k) =>
              \A r \in Requests :
                  AnsweredResent(r, k) ~>
                      /\ hm[r] = "done"
                      /\ Cardinality(FinalResponsesDelivered(r)) = 1
    /\ [](\A r \in Requests : Cardinality(FinalResponsesDelivered(r)) <= 1)

\* The handler completed and the client has the final response of a request
\* whose elicitation it answered after the restart.
C12_Witness ==
    \E r \in Requests :
        /\ AnsweredResent(r, restarts)
        /\ memo[r].elicit = "accept"
        /\ hm[r] = "done"
        /\ Cardinality(FinalResponsesDelivered(r)) = 1


\* The client response to the elicitation with event id uuid4 n has been
\* stored in stream s.
ResponseStored(s, n) ==
    IdemKey("Resp", n, s, Alias("Store response")) \in idem

\* The event ids of the server-initiated requests stored in the stream of
\* request r for which no client response has been stored.
UnansweredRequests(r) ==
    {streams[r][i].event_id : i \in
        {j \in 1..Len(streams[r]) :
            /\ streams[r][j].message.kind = "request"
            /\ streams[r][j].event_id # NoEid
            /\ \A n \in Uuid4s :
                  streams[r][j].event_id = Uuid4(n) => ~ResponseStored(r, n)}}

\* C13 (cancel outstanding requests), as stated: when
\* cancel_outstanding_requests of Run for request r has read the stream, the
\* cancellations it is going to send are those of the server-initiated
\* requests stored in the stream that have no stored response, and of no
\* request whose client response has been stored.
C13_CancelOutstanding ==
    [][\A r \in Requests :
          Cancel_Read(r) => cancelPending'[r] = UnansweredRequests(r)]_vars


\* C14 (client response routing): a client response whose id is a minted
\* event id of _write_request_ids is sent on the read stream of the request
\* the elicitation relates to, and of no other request, and it carries the
\* request id the engine gave the elicitation.
C14_ResponseRouting ==
    \A d \in delivered :
        \E e \in emitted :
            /\ e.op.op = "elicit"
            /\ e.id = Uuid4(d.n)
            /\ d.to = e.r
            /\ d.message.id = e.request_id
            /\ d.message.id # e.id

\* A response was routed to a request while the read stream of another
\* request was open.
C14_Witness ==
    \E d \in delivered : \E q \in Requests :
        /\ q # d.to
        /\ StreamsOf(RequestId(q)).refs > 0
        /\ ~StreamsOf(RequestId(q)).readClosed
        /\ memo[d.to].elicit = "accept"


\* C15 (client response with no mapping): HandleMessage of a client response
\* whose id is not in _write_request_ids completes, and in completing
\* appends nothing to a stream, changes no state of the session and sends
\* nothing on a read stream.
C15_NoMappingDropped ==
    [][\A n \in Uuid4s :
          (/\ resp[n] = "check"
           /\ resp'[n] # "check"
           /\ Uuid4(n) \notin WriteRequestKeys)
          => /\ resp'[n] = "done"
             /\ UNCHANGED <<durable, request_streams, write_request_ids,
                            run, hpos, delivered>>]_vars

\* HandleMessage of an answer of the client completed after a restart:
\* the answer was neither stored nor sent on a read stream.
C15_Witness ==
    \E n \in answered :
        /\ resp[n] = "done"
        /\ restarts > 0
        /\ \A s \in StreamIds : ~ResponseStored(s, n)
        /\ \A d \in delivered : d.n # n


\* The writer store_client_info of the initialize request r was applied.
ClientInfoWritten(r) ==
    /\ method[r] = "initialize"
    /\ IdemKey("HM", r, SESSION, Alias("Store client info on initialize"))
           \in idem

\* C16 (client_info is written once): client_info is unset until the writer
\* of an initialize request is applied, it is the clientInfo of the one
\* initialize request whose writer was applied, and once set it keeps its
\* value through re-executions, restarts and further initialize requests.
C16_ClientInfoOnce ==
    /\ [](session.client_info = ""
            => \A r \in Requests : ~ClientInfoWritten(r))
    /\ [](session.client_info # ""
            => /\ Cardinality({r \in Requests : ClientInfoWritten(r)}) = 1
               /\ \A r \in Requests :
                     ClientInfoWritten(r)
                         => session.client_info = clientName[r])
    /\ [][session.client_info # ""
            => session'.client_info = session.client_info]_vars

\* After a restart, store_client_info of a further initialize request, of a
\* client with another name, has run and client_info is that of the first.
C16_Witness ==
    \E r, q \in Requests :
        /\ r # q
        /\ ClientInfoWritten(r)
        /\ method[q] = "initialize"
        /\ hm[q] = "assert_failed"
        /\ clientName[q] # clientName[r]
        /\ session.client_info = clientName[r]
        /\ restarts > 0


\* The keys of _request_streams that hold an entry.
RequestStreamsEntries == {k \in RequestIds : request_streams[k].refs > 0}

\* C17 (request-id canonicalization): two request ids with the same string
\* form have the same key in _request_streams and the same durable stream
\* id, and the map never holds two entries whose keys have the same string
\* form.
C17_Canonicalization ==
    /\ \A a, b \in RequestIds :
          str(a) = str(b)
              => /\ RequestStreamsKey(a) = RequestStreamsKey(b)
                 /\ qualified_stream_id(a) = qualified_stream_id(b)
    /\ \A j, k \in RequestStreamsEntries : str(j) = str(k) => j = k

\* HandleMessage and Run of a request, which name it by the integer of the
\* client's message, and HandleMessage of a client response, which names
\* it by the string of related_request_id, hold the same entry.
C17_Witness ==
    \E r \in Requests :
        /\ RequestId(r) # RelatedRequestId(r)
        /\ StreamsOf(RequestId(r)).refs = 3
        /\ \E n \in Uuid4s : resp[n] = "send"
        /\ RequestStreamsEntries \subseteq {str(RequestId(q)) : q \in Requests}


\* The event ids of the events of stream s, in the order of the stream.
EventIdsOf(s) ==
    [i \in 1..Len(StreamEvents(streams[s])) |->
        StreamEvents(streams[s])[i].event_id]

\* The elements of the sequence ids that are in the set keep, in order.
Restrict(ids, keep) == SelectSeq(ids, LAMBDA id : id \in keep)

\* The set of the elements of a sequence.
Range(ids) == {ids[i] : i \in 1..Len(ids)}

\* C18 (aggregate stream order), as stated: for a Visual Studio Code
\* session, the events a completed HandleMessage appended to the stream of
\* its request are all in the aggregate stream, and at every moment the
\* events of a request that are in the aggregate stream are there in the
\* order they have in the stream of the request, whatever the interleaving
\* of the requests.
C18_AggregateOrder ==
    session.client_info = "Visual Studio Code" =>
        \A r \in Requests :
            LET own == EventIdsOf(r)
                agg == EventIdsOf(VSCODE_GET) IN
              /\ hm[r] = "done" => Range(own) \subseteq Range(agg)
              /\ Restrict(agg, Range(own)) = Restrict(own, Range(agg))


\* The sequence a is an initial part of the sequence b.
IsPrefix(a, b) == Len(a) <= Len(b) /\ a = SubSeq(b, 1, Len(a))

\* C19 (GET catch-up), as stated: for a Visual Studio Code client whose GET
\* had no Last-Event-ID and was given the sentinel, the GET stream delivers
\* events of the aggregate stream only, each once and in append order, and
\* it does not end before it has delivered all of them.
C19_GetCatchUp ==
    (/\ session.client_info = "Visual Studio Code"
     /\ getHeader = VSCODE_INITIAL_GET_LAST_EVENT_ID)
        => /\ IsPrefix(getSeen, EventIdsOf(VSCODE_GET))
           /\ get \in {"raised", "returned"}
                 => getSeen = EventIdsOf(VSCODE_GET)


\* C20 (POST SSE bodies are dropped for Visual Studio Code): of the response
\* to a POST of a Visual Studio Code session that starts with status 200 and
\* content-type text/event-stream, http.response.start is forwarded and no
\* later message; of the response to a GET, and of every response to a
\* client that is not Visual Studio Code, every message is forwarded as it
\* is.
C20_PostSseDropped ==
    /\ (/\ httpRequest.method = "POST"
        /\ session.client_info = "Visual Studio Code"
        /\ httpRequest.status = 200
        /\ httpRequest.content_type = "text/event-stream")
           => forwarded = SubSeq(handed, 1, IF handed = << >> THEN 0 ELSE 1)
    /\ (\/ httpRequest.method = "GET"
        \/ session.client_info # "Visual Studio Code")
           => forwarded = handed

\* The whole response to a POST of Visual Studio Code was handed to
\* post_send, an event stream with status 200, and its start alone was
\* sent on.
C20_Witness ==
    /\ httpRequest = [method |-> "POST", status |-> 200,
                      content_type |-> "text/event-stream"]
    /\ session.client_info = "Visual Studio Code"
    /\ http = "done"
    /\ Len(handed) = 1 + MaxBodyMessages
    /\ forwarded = << ResponseStart(200, "text/event-stream") >>


\* C21 (the is-VSCode check never blocks), as stated: while the front end
\* is in is_vscode() for a GET without Last-Event-ID, and while the
\* outbound pump of a request is in check_is_vscode, the check can return,
\* whether or not client_info is populated.
C21_IsVscodeNeverBlocks ==
    /\ get = "is_vscode" => ENABLED GET_IsVscode
    /\ \A r \in Requests :
          hm[r] = "sar_vscheck" => ENABLED SAR_CheckIsVscode(r)

\* The access token the HTTP request of request r carried.
CarriedToken(r) == auth_context_var[r]

\* C22 (access-token propagation), as stated: whenever get_access_token()
\* returns to the handler of a request, in its first execution and in one
\* after a restart, it returns the verified access token of the HTTP request
\* that carried the request, and nothing when that request was
\* unauthenticated.
C22_AccessTokenPropagation ==
    \A r \in Requests :
        \A i \in 1..Len(tokenSeen[r]) : tokenSeen[r][i] = CarriedToken(r)

\* The HTTP requests made without a bearer token the verifier accepts.
Unauthenticated ==
    {n \in 1..Len(posted) : posted[n].authorization # "valid"}

\* C23 (bearer rejection): when a token verifier is configured, a request
\* without a valid bearer token is answered 401 and nothing else: it never
\* reaches the endpoint, where a session id would be minted, it is not
\* forwarded upstream and no transport handles it, so that no HandleMessage
\* is spawned for it.
C23_BearerRejection ==
    mcp.token_verifier =>
        \A n \in Unauthenticated :
            /\ status_code[n] \in {0, 401}
            /\ \A q \in pending :
                   q.n = n => q.at = "middleware" /\ q.state_ref = NoHeader
            /\ \A u \in upstream : u.request.n # n
            /\ \A h \in handled : h.request.n # n
            /\ Len(posted) = Cardinality(Unauthenticated) =>
                   uuid7_next = 1 /\ http_transports = {}

\* A request with a token the verifier rejects was answered 401.
C23_Witness ==
    /\ mcp.token_verifier
    /\ \E n \in Unauthenticated :
           posted[n].authorization = "invalid" /\ status_code[n] = 401

\* The events of the stream of request r the client has not received.
Missed(r) == Replay(streams[qualified_stream_id(RelatedRequestId(r))],
                    LastEventId(r))

ForwardedTo(u) == StateRefId(u.headers.state_ref)

\* C25 (session minting and routing): no transport handles a request that
\* has no state-ref header; a request forwarded upstream has the state-ref
\* "rbt.mcp.v1.Session:<sid>", where sid is its mcp-session-id when it has
\* one and otherwise an id that no request made before it carried and no
\* other request was given; and a request without mcp-session-id is handled
\* by the transport of the sid of its state-ref.
C25_SessionRouting ==
    /\ \A h \in handled : h.request.state_ref # NoHeader
    /\ \A u \in upstream :
          /\ u.request.state_ref = NoHeader
          /\ u.headers.state_ref =
                 << "rbt.mcp.v1.Session", ":", ForwardedTo(u) >>
          /\ u.request.mcp_session_id # 0 =>
                 ForwardedTo(u) = u.request.mcp_session_id
          /\ u.request.mcp_session_id = 0 =>
                 /\ \A k \in 1..u.request.n :
                        posted[k].mcp_session_id # ForwardedTo(u)
                 /\ \A v \in upstream :
                        /\ v.request.mcp_session_id = 0
                        /\ v.request.n # u.request.n
                        => ForwardedTo(v) # ForwardedTo(u)
    /\ \A h \in handled :
          h.request.mcp_session_id = 0 =>
              h.transport = StateRefId(h.request.state_ref)

\* A request without mcp-session-id was forwarded with a minted id and
\* handled by the transport of that id, and so was a later request that
\* carried the id.
C25_Witness ==
    \E g, h \in handled :
        /\ g.request.mcp_session_id = 0
        /\ h.request.mcp_session_id = g.transport
        /\ h.transport = g.transport
        /\ \E u \in upstream : u.request.n = h.request.n

\* The events stored after the event replay() was called with, and those up
\* to the first response or error among them.
EventsAfterCall == Replay(state_messages, replayFrom)
UpToTerminal(events) ==
    IF \E i \in 1..Len(events) : IsTerminal(events[i].message)
    THEN SubSeq(events, 1,
                CHOOSE i \in 1..Len(events) :
                    /\ IsTerminal(events[i].message)
                    /\ \A j \in 1..(i - 1) : ~IsTerminal(events[j].message))
    ELSE events

\* C26 (replay termination): replay() has returned exactly when the last
\* event it yielded is a response or an error, and it yielded no other
\* one; when a response or error is stored after the event it was called
\* with, it eventually returns; until then it is subscribed or yielding.
C26_ReplayTermination ==
    /\ [](replayPc = "returned" <=>
              /\ yielded # << >>
              /\ \E i \in 1..Len(EventsAfterCall) :
                    /\ EventsAfterCall[i].event_id = yielded[Len(yielded)]
                    /\ IsTerminal(EventsAfterCall[i].message)
                    /\ \A j \in 1..(i - 1) :
                          ~IsTerminal(EventsAfterCall[j].message))
    /\ [](/\ replayPc # "none"
          /\ \E i \in 1..Len(EventsAfterCall) :
                IsTerminal(EventsAfterCall[i].message)
          => <>(replayPc = "returned"))

\* replay() returned after it had subscribed a second time, and an event
\* was stored after the response it returned at.
C26_Witness ==
    /\ replayPc = "returned"
    /\ replayLast # replayFrom
    /\ Len(EventsAfterCall) > Len(yielded)

\* C30 (reactive replay): what replay() has yielded is at any time a prefix
\* of the events stored after the event it was called with, up to the first
\* response or error, in the order of the stream: none skipped, none twice;
\* and each of these events is eventually yielded, whenever it was stored.
C30_ReactiveReplay ==
    /\ [](/\ Len(yielded) <= Len(UpToTerminal(EventsAfterCall))
          /\ \A i \in 1..Len(yielded) :
                yielded[i] = UpToTerminal(EventsAfterCall)[i].event_id)
    /\ \A n \in 1..MaxMessages :
          [](/\ replayPc # "none"
             /\ Len(UpToTerminal(EventsAfterCall)) >= n
             => <>(Len(yielded) >= n))

\* replay() subscribed a second time and is yielding the events of the
\* response; a further event was stored since that response.
C30_Witness ==
    /\ replayPc = "events"
    /\ replayLast # replayFrom
    /\ Len(yielded) >= 2
    /\ Len(UpToTerminal(EventsAfterCall)) >
           Len(yielded) + (Len(replayEvents) - replayIndex + 1)

\* A float whose value is integral is in the value, at some depth.
RECURSIVE HasWholeFloat(_)
HasWholeFloat(value) ==
    \/ value.t = "float" /\ value.n % 2 = 0
    \/ \E i \in 1..Len(value.items) : HasWholeFloat(value.items[i])

\* Every number in the value is an int.
RECURSIVE NumbersAreInts(_)
NumbersAreInts(value) ==
    /\ value.t # "float"
    /\ \A i \in 1..Len(value.items) : NumbersAreInts(value.items[i])

\* C27 (number normalization), as stated: the decoded message holds no
\* float whose value is integral, at any depth and inside arrays too, and a
\* message whose numbers are integers is decoded to itself.
C27_NumberNormalization ==
    numPc = "decoded" =>
        /\ ~HasWholeFloat(numDecoded)
        /\ NumbersAreInts(numMessage) => numDecoded = numMessage

\* Call i of the invocation yielded an alias that an earlier call of the
\* invocation yielded.
Repeated(i) == \E j \in 1..(i - 1) : aliasCalls[j] = aliasCalls[i]

\* C28 (duplicate aliases fail loudly): in an invocation the messages sent
\* are those of the calls whose alias no earlier call of the invocation
\* yielded, in order, so a call that yields a used alias sends nothing and
\* the first call of an alias in an invocation, a re-executed one too, sends
\* its message; the tool has ended with the error exactly when its last call
\* yielded a used alias; and the aliases of two calls of a function in
\* different iterations of a loop differ.
C28_DuplicateAliases ==
    /\ aliasSent =
           IF aliasCalls # << >> /\ Repeated(Len(aliasCalls))
           THEN SubSeq(aliasCalls, 1, Len(aliasCalls) - 1)
           ELSE aliasCalls
    /\ \A i \in 1..Len(aliasCalls) :
           Repeated(i) => i = Len(aliasCalls) /\ toolPc = "raised"
    /\ toolPc = "raised" => Repeated(Len(aliasCalls))
    /\ Len(aliasSent) =
           Cardinality({aliasSent[i] : i \in 1..Len(aliasSent)})
    /\ \A function_name \in ContextFunctions \cup SessionFunctions :
           \A w1, w2 \in Whys :
               \A i1, i2 \in Iterations \ {""} :
                   i1 # i2 =>
                       event_alias(function_name, w1, i1) #
                           event_alias(function_name, w2, i2)

\* In its second invocation the tool made a call that sent its message and
\* a second call that yielded the same alias, which raised the error.
C28_Witness ==
    /\ invocations = 2
    /\ toolPc = "raised"
    /\ Len(aliasCalls) = 2
    /\ Len(aliasSent) = 1

\* C29 (auth configuration): the construction of DurableMCP succeeded when
\* it was given no auth, no provider and no verifier, or auth and exactly
\* one of auth_server_provider and token_verifier; it raised ValueError for
\* every other combination.
C29_AuthConfiguration ==
    mcp.state # "none" =>
        LET accepted ==
                \/ ~mcp.auth /\ ~mcp.auth_server_provider
                             /\ ~mcp.token_verifier
                \/ mcp.auth /\ (mcp.auth_server_provider # mcp.token_verifier)
        IN  /\ accepted => mcp.state = "constructed"
            /\ ~accepted => mcp.state = "ValueError"

\* A verifier was given without auth and the construction raised.
C29_Witness ==
    /\ mcp.state = "ValueError"
    /\ ~mcp.auth
    /\ mcp.token_verifier

\* The positions at which the stream of request r holds the inbound request
\* as a message without event id, and those at which session.stream_ids
\* holds the id of the stream.
InboundRecorded(r) ==
    {i \in 1..Len(streams[qualified_stream_id(RequestId(r))]) :
        streams[qualified_stream_id(RequestId(r))][i] =
            StoredMessage(Inbound(r), NoEid, 0)}
StreamIdRecorded(r) ==
    {i \in 1..Len(session.stream_ids) :
        session.stream_ids[i] = qualified_stream_id(RequestId(r))}

\* C31 (the inbound request is recorded first and once): the stream id and
\* the inbound request of a request are recorded at most once, whatever
\* number of times HandleMessage is executed, both are recorded once Run has
\* been spawned, and in a stream that holds anything the inbound request is
\* the first message, before every event.
C31_InboundRecordedFirst ==
    \A r \in Requests :
        /\ Cardinality(StreamIdRecorded(r)) <= 1
        /\ Cardinality(InboundRecorded(r)) <= 1
        /\ run[r] # "idle" =>
               /\ Cardinality(StreamIdRecorded(r)) = 1
               /\ Cardinality(InboundRecorded(r)) = 1
        /\ streams[qualified_stream_id(RequestId(r))] # << >> =>
               InboundRecorded(r) = {1}

\* HandleMessage was executed again after a restart and has passed the put
\* of the initial request, in a stream that holds an event already.
C31_Witness ==
    \E r \in Requests :
        /\ restarts = 1
        /\ hm[r] = "enter"
        /\ run[r] # "idle"
        /\ EventIdsOf(qualified_stream_id(RequestId(r))) # << >>

\* C32 (the event log is append-only): a step changes the messages of a
\* stream only by appending one message at its end, so the earlier list is a
\* prefix of the later one; a step in which cancel_outstanding_requests
\* reads the messages of a stream (Stream.Messages) changes no stream.
C32_AppendOnly ==
    [][/\ \A s \in StreamIds :
              /\ IsPrefix(streams[s], streams'[s])
              /\ Len(streams'[s]) <= Len(streams[s]) + 1
       /\ (\E r \in Requests : cancel[r] = "read" /\ cancel'[r] = "done") =>
              streams' = streams]_vars

\* A stream holds three messages, put one after the other, and its messages
\* have been read by cancel_outstanding_requests.
C32_Witness ==
    \E r \in Requests :
        /\ Len(streams[qualified_stream_id(RequestId(r))]) >= 3
        /\ cancel[r] = "done"

\* C33 (effect validation is tolerated): when send_and_receive is executed
\* again with the read channel closed by its first execution, it returns
\* at once: the engine is not handed the inbound request again, Run stays
\* where it was and no stream gets a message.
C33_ValidationTolerated ==
    [][\A r \in Requests :
           (/\ hm[r] = "sar_send"
            /\ StreamsOf(RequestId(r)).readClosed
            /\ hm'[r] # hm[r]
            /\ restarts' = restarts) =>
               /\ hm'[r] = "sar_validated"
               /\ streams' = streams
               /\ run' = run
               /\ hpos' = hpos]_vars

\* The second execution of send_and_receive has returned, after a first
\* execution that put the final response on the stream.
C33_Witness ==
    \E r \in Requests :
        /\ hm[r] = "sar_validated"
        /\ TerminalEvents(qualified_stream_id(RequestId(r))) # {}

\* C34 (both workflows return after the final response): once the final
\* response of a request is on its stream, HandleMessage and Run of the
\* request both eventually return, whatever restarts happen in between.
C34_BothReturn ==
    \A r \in Requests :
        (TerminalEvents(qualified_stream_id(RequestId(r))) # {})
            ~> (hm[r] = "done" /\ run[r] = "done")

\* The server-initiated requests stored in the stream of request r in an
\* earlier process life that have no stored response: every request issued
\* in the current life has an entry in _write_request_ids.
PreviousLifeUnanswered(r) == UnansweredRequests(r) \ WriteRequestKeys

\* C35 (cancellation runs beside the engine): when
\* cancel_outstanding_requests of Run for request r has read the stream, it
\* is going to cancel every request a previous process life left unanswered
\* and no request issued in the current life, wherever the handler is.
C35_CancelBesideEngine ==
    [][\A r \in Requests :
          Cancel_Read(r) =>
              /\ PreviousLifeUnanswered(r) \subseteq cancelPending'[r]
              /\ cancelPending'[r] \cap WriteRequestKeys = {}]_vars

\* The handler of request r waits for the result of the elicitation with
\* event id uuid4 n.
Pending(r, n) ==
    /\ run[r] = "await_result"
    /\ \E e \in write_request_ids :
          /\ e.event_id = Uuid4(n)
          /\ e.related = r
          /\ e.request_id = SrvId(srvNext[r] - 1)

\* C36 (an error answer resolves the pending request): when the client has
\* answered the elicitation a handler waits for with a JSON-RPC error, the
\* answer is eventually delivered to the read channel of the handler's
\* request and the handler stops waiting.
C36_ErrorAnswerResolves ==
    \A r \in Requests, n \in Uuid4s :
        (resp[n] = "unimplemented" /\ Pending(r, n))
            ~> (~Pending(r, n) /\ \E d \in delivered : d.n = n /\ d.to = r)

\* The two maps of the application have the same keys.
SameKeys == connect_tasks = http_transports

\* C37 (a transport is started before it handles a request): every request
\* handed to the transport of a session is handed to it after connect() of
\* the session has set `started`, and _http_transports and _connect_tasks
\* have the same keys.
C37_StartedBeforeHandled ==
    /\ \A h \in handled : h.started
    /\ SameKeys

\* C38 (one response start per proxied request): for a request without
\* state-ref header at most one http.response.start is sent, and one once
\* the request has a status; the status is that of the upstream when the
\* request was forwarded and 500 when forwarding failed.
C38_OneResponseStart ==
    \A n \in HttpRequests :
        /\ response_start[n] <= 1
        /\ status_code[n] # 0 <=> response_start[n] = 1
        /\ (\E u \in upstream : u.request.n = n) => status_code[n] # 500

\* replay() was called with a last_event_id that no event of the stream
\* carries.
Unmatched ==
    /\ replayPc # "none"
    /\ replayFrom # NoEid
    /\ \A i \in 1..Len(state_messages) :
          state_messages[i].event_id # replayFrom

\* C39 (an unknown last event id yields nothing): while the last_event_id
\* replay() was called with matches no event of the stream, whatever has
\* been appended since, Replay returns no events for it, and the generator
\* has yielded nothing and has not returned: it stays subscribed.
C39_UnknownLastEventId ==
    Unmatched =>
        /\ Replay(state_messages, replayFrom) = << >>
        /\ yielded = << >>
        /\ replayPc = "subscribed"

\* replay() was called with an id the stream never holds, and a
\* notification and a response were stored after the call.
C39_Witness ==
    /\ Unmatched
    /\ replayFrom = Uuid4(MaxMessages + 1)
    /\ \E i \in 1..Len(state_messages) :
          /\ state_messages[i].event_id # NoEid
          /\ IsTerminal(state_messages[i].message)
    /\ Len(StreamEvents(state_messages)) >= 2

\* The workflows that are inside _get_request_streams for request r:
\* HandleMessage from the spawn of Run to its return, Run while server_run
\* is executed, and HandleMessage of a client response while it sends the
\* response to the engine.
HandleMessageHolds(r) ==
    hm[r] \in {"sar_send", "sar_recv", "sar_put", "sar_vscheck", "sar_vsput",
               "sar_memo", "sar_validated", "await_run"}
RunHolds(r) == run[r] \in EngineReading
ResponseHolders(r) ==
    {n \in Uuid4s :
        /\ resp[n] = "send"
        /\ \E e \in write_request_ids :
              e.event_id = Uuid4(n) /\ e.related = r}
Holders(r) ==
    (IF HandleMessageHolds(r) THEN 1 ELSE 0) + (IF RunHolds(r) THEN 1 ELSE 0)
        + Cardinality(ResponseHolders(r))

====
